---- MODULE Spec2Model ----
(***************************************************************************)
(* Model of the provider audit engine of API-Tester                        *)
(* (src/src/audit_engine.cpp, driven by the worker of src/src/main.cpp).   *)
(*                                                                         *)
(* Strings are TLA+ strings, handled character by character where the code *)
(* does (ToLower, std::string::find, the byte order of std::set).          *)
(* A JSON value is a tagged record:                                        *)
(*   [t |-> "string", s |-> ..]   [t |-> "int", n |-> ..]                  *)
(*   [t |-> "array",  a |-> <<..>>]   [t |-> "object", o |-> [key |-> ..]] *)
(*   [t |-> "uint", over |-> k], the unsigned integer 2^63 + k, which no   *)
(*   long long holds                                                       *)
(* and a response body is either such a value (the text of a JSON          *)
(* document) or [t |-> "invalid"], a text nlohmann::json::parse rejects.   *)
(*                                                                         *)
(* A request handed to the Sender is recorded in sent with the provider,  *)
(* the step, the payload of a chat request, and flag: what                 *)
(* cancel_requested held when Request was called.                          *)
(*                                                                         *)
(* Left out of the state of a run: response headers and the rate-limit     *)
(* maps, the truncated snippets and the timestamps that prefix log lines.  *)
(*                                                                         *)
(* Spec is a run of AuditEngine::Run beside the UI thread; UnitSpec is one *)
(* call of one function of the engine on arguments of a bounded set;       *)
(* AppSpec is main(): the frame loop and the worker thread it starts.      *)
(* AppLiveSpec is AppSpec with both threads scheduled fairly.              *)
(***************************************************************************)
EXTENDS Integers, Sequences, FiniteSets, TLC

(***************************************************************************)
(* Strings                                                                 *)
(***************************************************************************)
CharAt(s, i) == SubSeq(s, i, i)

UpperChars == "ABCDEFGHIJKLMNOPQRSTUVWXYZ"
LowerChars == "abcdefghijklmnopqrstuvwxyz"

UpperSet == {CharAt(UpperChars, i) : i \in 1..Len(UpperChars)}
LowerMap ==
  [c \in UpperSet |->
     CharAt(LowerChars, CHOOSE i \in 1..Len(UpperChars) : CharAt(UpperChars, i) = c)]

\* std::tolower on one character
ToLowerChar(c) == IF c \in UpperSet THEN LowerMap[c] ELSE c

RECURSIVE LowerFrom(_, _)
LowerFrom(s, i) ==
  IF i > Len(s) THEN "" ELSE ToLowerChar(CharAt(s, i)) \o LowerFrom(s, i + 1)

\* ToLower: std::transform with std::tolower over the whole string
ToLower(s) == LowerFrom(s, 1)

\* s.find(sub) != std::string::npos
Contains(s, sub) ==
  \E i \in 0..(Len(s) - Len(sub)) : SubSeq(s, i + 1, i + Len(sub)) = sub

\* the characters of the model's strings in byte (ASCII) order
AsciiOrder ==
  "-./0123456789:ABCDEFGHIJKLMNOPQRSTUVWXYZ_abcdefghijklmnopqrstuvwxyz"

CharSet == {CharAt(AsciiOrder, i) : i \in 1..Len(AsciiOrder)}
CodeMap ==
  [c \in CharSet |-> CHOOSE i \in 1..Len(AsciiOrder) : CharAt(AsciiOrder, i) = c]
CharCode(c) == CodeMap[c]

RECURSIVE StrLessFrom(_, _, _)
StrLessFrom(a, b, i) ==
  IF i > Len(b) THEN FALSE
  ELSE IF i > Len(a) THEN TRUE
  ELSE IF CharAt(a, i) = CharAt(b, i) THEN StrLessFrom(a, b, i + 1)
  ELSE CharCode(CharAt(a, i)) < CharCode(CharAt(b, i))

\* std::less<std::string>: lexicographic byte order
StrLess(a, b) == StrLessFrom(a, b, 1)

RECURSIVE SortedSeq(_)
\* iteration order of a std::set<std::string> holding the strings of S
SortedSeq(S) ==
  IF S = {} THEN <<>>
  ELSE LET m == CHOOSE x \in S : \A y \in S \ {x} : StrLess(x, y)
       IN <<m>> \o SortedSeq(S \ {m})

Range(q) == {q[i] : i \in 1..Len(q)}

\* std::set<std::string> dedup(v.begin(), v.end()); v.assign(dedup.begin(), dedup.end())
DedupSorted(q) == SortedSeq(Range(q))

Min(a, b) == IF a < b THEN a ELSE b

(***************************************************************************)
(* JSON values                                                             *)
(***************************************************************************)
JStr(s) == [t |-> "string", s |-> s]
JInt(n) == [t |-> "int", n |-> n]
JArr(a) == [t |-> "array", a |-> a]
JObj(o) == [t |-> "object", o |-> o]
JBig(k) == [t |-> "uint", over |-> k]
JNull == [t |-> "null"]
EmptyObject == JObj(<<>>)
InvalidBody == [t |-> "invalid"]

IsString(j) == j.t = "string"
IsArray(j) == j.t = "array"
IsObject(j) == j.t = "object"
\* is_number_integer: number_integer or number_unsigned
IsInteger(j) == j.t \in {"int", "uint"}
JContains(j, k) == k \in DOMAIN j.o

\* ParseJson that hands back what the parser gave
ParseJsonAsParsed(body) == body

\* ParseJson: a discarded parse yields the empty object
ParseJson(body) == IF body.t = "invalid" THEN EmptyObject ELSE body

\* the keywords of RateLimitHeaders
RateLimitWords == {"rate", "limit", "quota", "retry"}

\* RateLimitHeaders with the keyword retry left out
RateLimitHeadersNoRetry(headers) ==
  [k \in {h \in DOMAIN headers :
            Contains(h, "rate") \/ Contains(h, "limit") \/ Contains(h, "quota")}
     |-> headers[k]]

\* RateLimitHeaders: a std::map as a function from its keys; k.find(word) is
\* applied to the key as it is
RateLimitHeaders(headers) ==
  [k \in {h \in DOMAIN headers : \E w \in RateLimitWords : Contains(h, w)}
     |-> headers[k]]

(***************************************************************************)
(* JSON Miner                                                              *)
(***************************************************************************)
\* the ids one array element contributes (the lambda `add` of ExtractModelIds)
ItemIds(item) ==
  IF IsString(item) THEN <<item.s>>
  ELSE IF IsObject(item)
       THEN IF JContains(item, "id") /\ IsString(item.o["id"])
            THEN <<item.o["id"].s>>
            ELSE IF JContains(item, "name") /\ IsString(item.o["name"])
                 THEN <<item.o["name"].s>>
                 ELSE <<>>
       ELSE <<>>

RECURSIVE AddIdsFrom(_, _)
AddIdsFrom(a, i) ==
  IF i > Len(a) THEN <<>> ELSE ItemIds(a[i]) \o AddIdsFrom(a, i + 1)

AddIds(arr) == IF IsArray(arr) THEN AddIdsFrom(arr.a, 1) ELSE <<>>

\* ExtractModelIds returning the collected ids as they came
ExtractModelIdsAsCollected(j) ==
  IF IsArray(j) THEN AddIds(j)
  ELSE IF IsObject(j)
       THEN (IF JContains(j, "data") THEN AddIds(j.o["data"]) ELSE <<>>)
            \o (IF JContains(j, "models") THEN AddIds(j.o["models"]) ELSE <<>>)
       ELSE <<>>

ExtractModelIds(j) ==
  LET out == IF IsArray(j) THEN AddIds(j)
             ELSE IF IsObject(j)
                  THEN (IF JContains(j, "data") THEN AddIds(j.o["data"]) ELSE <<>>)
                       \o (IF JContains(j, "models") THEN AddIds(j.o["models"]) ELSE <<>>)
                  ELSE <<>>
  IN DedupSorted(out)

\* the key test of ExtractMaxContext, on the lower-cased key
ContextKey(k_low) ==
  \/ Contains(k_low, "context")
  \/ Contains(k_low, "inputtokenlimit")
  \/ Contains(k_low, "contextwindow")
  \/ /\ Contains(k_low, "token")
     /\ ~Contains(k_low, "output")
     /\ ~Contains(k_low, "completion")

\* best = std::max(best, v.get<long long>()): an unsigned value of 2^63 or
\* more converts to a long long of -1 or less, and best starts at -1
MaxWith(best, v) ==
  IF v.t = "uint" THEN best ELSE IF v.n > best THEN v.n ELSE best

RECURSIVE scan(_, _)
RECURSIVE scanFields(_, _, _)
RECURSIVE scanItems(_, _, _)
\* scan(node, key_name), with the captured best handed along; best is a
\* long long, whose value is known before the next call
scan(node, best) ==
  IF IsObject(node) THEN scanFields(node.o, DOMAIN node.o, best)
  ELSE IF IsArray(node) THEN scanItems(node.a, 1, best)
  ELSE best

scanFields(o, ks, best) ==
  IF ks = {} THEN best
  ELSE LET k == CHOOSE x \in ks : TRUE
           v == o[k]
           b == IF IsInteger(v) /\ ContextKey(ToLower(k)) THEN MaxWith(best, v)
                ELSE best
       IN CASE b \in Int -> scanFields(o, ks \ {k}, scan(v, b))

scanItems(a, i, best) ==
  IF i > Len(a) THEN best
  ELSE LET b == scan(a[i], best)
       IN CASE b \in Int -> scanItems(a, i + 1, b)

ExtractMaxContext(j) == scan(j, -1)

\* the nesting of the calls of scan (and of walk) on a node: one call for the
\* node and one inside it for every field value and every array item
RECURSIVE CallDepth(_)
CallDepth(node) ==
  LET below ==
        IF IsObject(node) THEN {CallDepth(node.o[k]) : k \in DOMAIN node.o}
        ELSE IF IsArray(node) THEN {CallDepth(node.a[i]) : i \in 1..Len(node.a)}
        ELSE {}
  IN IF below = {} THEN 1
     ELSE 1 + (CHOOSE d \in below : \A e \in below : e <= d)

\* the tags of ExtractCapabilities and the words that give them
CapabilityWords ==
  { [tag |-> "vision/image", words |-> {"vision", "vl", "image"}],
    [tag |-> "reasoning", words |-> {"reason", "thinking"}],
    [tag |-> "coding", words |-> {"coder", "code"}],
    [tag |-> "embeddings", words |-> {"embed"}],
    [tag |-> "audio", words |-> {"audio", "speech"}],
    [tag |-> "reranking", words |-> {"rerank"}],
    [tag |-> "tool_use", words |-> {"tool", "function"}] }

consider(text) ==
  LET t == ToLower(text)
  IN {c.tag : c \in {d \in CapabilityWords : \E w \in d.words : Contains(t, w)}}

RECURSIVE walk(_)
walk(node) ==
  IF IsObject(node)
  THEN UNION { consider(k)
               \cup (IF IsString(node.o[k]) THEN consider(node.o[k].s) ELSE {})
               \cup walk(node.o[k]) : k \in DOMAIN node.o }
  ELSE IF IsArray(node) THEN UNION { walk(node.a[i]) : i \in 1..Len(node.a) }
  ELSE {}

\* caps is a std::set, returned in its order
ExtractCapabilities(model_ids, raw) ==
  SortedSeq(UNION {consider(model_ids[i]) : i \in 1..Len(model_ids)} \cup walk(raw))

\* AuditGoogle: a model counts when it is an object with a string name whose
\* supportedGenerationMethods array holds the string "generateContent"
GoogleItemIds(model) ==
  IF ~IsObject(model) THEN <<>>
  ELSE IF ~(JContains(model, "name") /\ IsString(model.o["name"])) THEN <<>>
  ELSE IF JContains(model, "supportedGenerationMethods")
          /\ IsArray(model.o["supportedGenerationMethods"])
          /\ \E i \in 1..Len(model.o["supportedGenerationMethods"].a) :
               LET m == model.o["supportedGenerationMethods"].a[i]
               IN IsString(m) /\ m.s = "generateContent"
       THEN <<model.o["name"].s>>
       ELSE <<>>

RECURSIVE GoogleIdsFrom(_, _)
GoogleIdsFrom(a, i) ==
  IF i > Len(a) THEN <<>> ELSE GoogleItemIds(a[i]) \o GoogleIdsFrom(a, i + 1)

GoogleDiscovered(list_json) ==
  DedupSorted(IF IsObject(list_json) /\ JContains(list_json, "models")
                 /\ IsArray(list_json.o["models"])
              THEN GoogleIdsFrom(list_json.o["models"].a, 1)
              ELSE <<>>)

\* AuditCohere: an object's string name, or a string element
CohereItemIds(model) ==
  IF IsObject(model) /\ JContains(model, "name") /\ IsString(model.o["name"])
  THEN <<model.o["name"].s>>
  ELSE IF IsString(model) THEN <<model.s>> ELSE <<>>

RECURSIVE CohereIdsFrom(_, _)
CohereIdsFrom(a, i) ==
  IF i > Len(a) THEN <<>> ELSE CohereItemIds(a[i]) \o CohereIdsFrom(a, i + 1)

CohereDiscovered(list_json) ==
  DedupSorted(IF IsObject(list_json) /\ JContains(list_json, "models")
                 /\ IsArray(list_json.o["models"])
              THEN CohereIdsFrom(list_json.o["models"].a, 1)
              ELSE <<>>)

RECURSIVE ChatCandidatesFrom(_, _)
ChatCandidatesFrom(discovered, i) ==
  IF i > Len(discovered) THEN <<>>
  ELSE LET ml == ToLower(discovered[i])
       IN (IF Contains(ml, "embed") \/ Contains(ml, "rerank")
           THEN <<>> ELSE <<discovered[i]>>)
          \o ChatCandidatesFrom(discovered, i + 1)

\* AuditCohere: the discovered models whose names do not look like embed/rerank
CohereChatCandidates(discovered) == ChatCandidatesFrom(discovered, 1)

RECURSIVE JoinPartsFrom(_, _)
\* oss << part["text"] << "\n" for every part that is an object with a string text
JoinPartsFrom(parts, i) ==
  IF i > Len(parts) THEN ""
  ELSE (IF IsObject(parts[i]) /\ JContains(parts[i], "text")
           /\ IsString(parts[i].o["text"])
        THEN parts[i].o["text"].s \o "\n" ELSE "")
       \o JoinPartsFrom(parts, i + 1)

ExtractOpenAIText(j) ==
  IF ~IsObject(j) \/ ~JContains(j, "choices") THEN ""
  ELSE IF ~IsArray(j.o["choices"]) \/ Len(j.o["choices"].a) = 0 THEN ""
  ELSE LET choice == j.o["choices"].a[1]
       IN IF ~IsObject(choice) \/ ~JContains(choice, "message") THEN ""
          ELSE LET msg == choice.o["message"]
               IN IF ~IsObject(msg) \/ ~JContains(msg, "content") THEN ""
                  ELSE LET content == msg.o["content"]
                       IN IF IsString(content) THEN content.s
                          ELSE IF IsArray(content) THEN JoinPartsFrom(content.a, 1)
                          ELSE ""

ExtractGoogleText(j) ==
  IF ~IsObject(j) \/ ~JContains(j, "candidates") THEN ""
  ELSE IF ~IsArray(j.o["candidates"]) \/ Len(j.o["candidates"].a) = 0 THEN ""
  ELSE LET c0 == j.o["candidates"].a[1]
       IN IF ~IsObject(c0) \/ ~JContains(c0, "content") THEN ""
          ELSE LET content == c0.o["content"]
               IN IF ~IsObject(content) \/ ~JContains(content, "parts") THEN ""
                  ELSE IF ~IsArray(content.o["parts"]) THEN ""
                  ELSE JoinPartsFrom(content.o["parts"].a, 1)

ExtractCohereText(j) ==
  IF ~IsObject(j) THEN ""
  ELSE IF JContains(j, "text") /\ IsString(j.o["text"]) THEN j.o["text"].s
  ELSE IF JContains(j, "message") /\ IsObject(j.o["message"])
          /\ JContains(j.o["message"], "content")
          /\ IsArray(j.o["message"].o["content"])
       THEN JoinPartsFrom(j.o["message"].o["content"].a, 1)
       ELSE ""

(***************************************************************************)
(* Candidate Ranker                                                        *)
(***************************************************************************)
\* lower[i] == p || lower[i].find(p) != npos
Matches(dl, p) == dl = p \/ Contains(dl, p)

RECURSIVE LowerAllFrom(_, _)
LowerAllFrom(q, i) ==
  IF i > Len(q) THEN <<>> ELSE <<ToLower(q[i])>> \o LowerAllFrom(q, i + 1)

\* the lower-cased copy of a list of strings
LowerAll(q) == LowerAllFrom(q, 1)

RECURSIVE ChooseFrom(_, _, _, _)
ChooseFrom(discovered, lower, plower, pi) ==
  IF pi > Len(plower) THEN discovered[1]
  ELSE LET hits == {i \in 1..Len(discovered) : Matches(lower[i], plower[pi])}
       IN IF hits # {}
          THEN discovered[CHOOSE i \in hits : \A k \in hits : i <= k]
          ELSE ChooseFrom(discovered, lower, plower, pi + 1)

\* ChooseModel comparing the names as they are written
ChooseModelAsWritten(discovered, preferred) ==
  IF Len(discovered) = 0 THEN ""
  ELSE ChooseFrom(discovered, discovered, preferred, 1)

ChooseModel(discovered, preferred) ==
  IF Len(discovered) = 0 THEN ""
  ELSE ChooseFrom(discovered, LowerAll(discovered), LowerAll(preferred), 1)

RECURSIVE TopPass2(_, _, _, _)
\* second loop of TopCandidates: the size test follows a push only
TopPass2(discovered, max_count, di, out) ==
  IF di > Len(discovered) THEN out
  ELSE IF discovered[di] \notin Range(out)
       THEN LET out2 == Append(out, discovered[di])
            IN IF Len(out2) >= max_count THEN out2
               ELSE TopPass2(discovered, max_count, di + 1, out2)
       ELSE TopPass2(discovered, max_count, di + 1, out)

RECURSIVE TopPass1(_, _, _, _, _, _, _)
\* first loop of TopCandidates: the size test follows every discovered id
TopPass1(discovered, lower, plower, max_count, pi, di, out) ==
  IF pi > Len(plower) THEN TopPass2(discovered, max_count, 1, out)
  ELSE IF di > Len(discovered)
       THEN TopPass1(discovered, lower, plower, max_count, pi + 1, 1, out)
       ELSE LET d == discovered[di]
                out2 == IF Matches(lower[di], plower[pi]) /\ d \notin Range(out)
                        THEN Append(out, d) ELSE out
            IN IF Len(out2) >= max_count THEN out2
               ELSE TopPass1(discovered, lower, plower, max_count, pi, di + 1, out2)

\* TopCandidates with the size tests written > instead of >=
TopCandidatesOneMore(discovered, preferred, max_count) ==
  TopPass1(discovered, LowerAll(discovered), LowerAll(preferred), max_count + 1,
           1, 1, <<>>)

TopCandidates(discovered, preferred, max_count) ==
  TopPass1(discovered, LowerAll(discovered), LowerAll(preferred), max_count, 1, 1, <<>>)

(***************************************************************************)
(* Scorer and Trace/Metrics Recorder                                       *)
(***************************************************************************)
\* get_answer: the lower-cased answer of the first prompt test of that name
GetAnswer(p, name) ==
  LET hits == {i \in 1..Len(p.prompt_tests) : p.prompt_tests[i].name = name}
  IN IF hits = {} THEN ""
     ELSE ToLower(p.prompt_tests[CHOOSE i \in hits : \A k \in hits : i <= k].answer)

\* ScoreProvider giving the axui point once, whatever the number of targets
ScoreProviderOneTarget(p) ==
  LET reasoning == GetAnswer(p, "reasoning")
      coding == GetAnswer(p, "coding")
      axui == GetAnswer(p, "axui")
      sr == IF Contains(reasoning, "5 minute") \/ reasoning = "5"
               \/ Contains(reasoning, "five minutes") THEN 1 ELSE 0
      sc == IF Contains(coding, "[::-1]") \/ Contains(coding, "reversed(")
            THEN 1 ELSE 0
      sa == IF Contains(axui, "close_popup") \/ Contains(axui, "btn_continue")
            THEN 1 ELSE 0
  IN [p EXCEPT !.score_reasoning = sr, !.score_coding = sc, !.score_axui = sa,
               !.score_total = sr + sc + sa]

ScoreProvider(p) ==
  LET reasoning == GetAnswer(p, "reasoning")
      coding == GetAnswer(p, "coding")
      axui == GetAnswer(p, "axui")
      sr == IF Contains(reasoning, "5 minute") \/ reasoning = "5"
               \/ Contains(reasoning, "five minutes") THEN 1 ELSE 0
      sc == IF Contains(coding, "[::-1]") \/ Contains(coding, "reversed(")
            THEN 1 ELSE 0
      has_close == Contains(axui, "close_popup")
      has_continue == Contains(axui, "btn_continue")
      sa == IF has_close /\ has_continue THEN 2
            ELSE IF has_close \/ has_continue THEN 1 ELSE 0
  IN [p EXCEPT !.score_reasoning = sr, !.score_coding = sc, !.score_axui = sa,
               !.score_total = sr + sc + sa]

\* r.status >= 200 && r.status < 300
Is2xx(status) == status >= 200 /\ status < 300

\* AddTrace judging success by the transport error alone
AddTraceByError(p, step, r) ==
  LET t == [step |-> step, status |-> r.status, latency_ms |-> r.latency_ms,
            error |-> r.error]
      ok == r.error = ""
  IN [p EXCEPT !.request_traces = Append(@, t),
               !.total_requests = @ + 1,
               !.successful_requests = IF ok THEN @ + 1 ELSE @,
               !.failed_requests = IF ok THEN @ ELSE @ + 1]

\* AddTrace with the failure counted on the status alone
AddTraceByStatus(p, step, r) ==
  LET t == [step |-> step, status |-> r.status, latency_ms |-> r.latency_ms,
            error |-> r.error]
  IN [p EXCEPT !.request_traces = Append(@, t),
               !.total_requests = @ + 1,
               !.successful_requests =
                  IF Is2xx(r.status) /\ r.error = "" THEN @ + 1 ELSE @,
               !.failed_requests = IF Is2xx(r.status) THEN @ ELSE @ + 1]

\* AddTrace putting the new trace in front of the others
AddTraceInFront(p, step, r) ==
  LET t == [step |-> step, status |-> r.status, latency_ms |-> r.latency_ms,
            error |-> r.error]
      ok == Is2xx(r.status) /\ r.error = ""
  IN [p EXCEPT !.request_traces = <<t>> \o @,
               !.total_requests = @ + 1,
               !.successful_requests = IF ok THEN @ + 1 ELSE @,
               !.failed_requests = IF ok THEN @ ELSE @ + 1]

AddTrace(p, step, r) ==
  LET t == [step |-> step, status |-> r.status, latency_ms |-> r.latency_ms,
            error |-> r.error]
      ok == Is2xx(r.status) /\ r.error = ""
  IN [p EXCEPT !.request_traces = Append(@, t),
               !.total_requests = @ + 1,
               !.successful_requests = IF ok THEN @ + 1 ELSE @,
               !.failed_requests = IF ok THEN @ ELSE @ + 1]

RECURSIVE LatSum(_, _)
LatSum(traces, i) ==
  IF i > Len(traces) THEN 0
  ELSE (IF traces[i].latency_ms >= 0 THEN traces[i].latency_ms ELSE 0)
       + LatSum(traces, i + 1)

\* FinalizeMetrics dividing by the number of all traces
FinalizeMetricsAllTraces(p) ==
  LET n == Cardinality({i \in 1..Len(p.request_traces) :
                          p.request_traces[i].latency_ms >= 0})
  IN IF n > 0
     THEN [p EXCEPT !.avg_latency_ms =
                      LatSum(p.request_traces, 1) \div Len(p.request_traces)]
     ELSE p

FinalizeMetrics(p) ==
  LET n == Cardinality({i \in 1..Len(p.request_traces) :
                          p.request_traces[i].latency_ms >= 0})
  IN IF n > 0
     THEN [p EXCEPT !.avg_latency_ms = LatSum(p.request_traces, 1) \div n]
     ELSE p

(***************************************************************************)
(* Configuration: the 11 provider instances of AuditEngine::Run            *)
(***************************************************************************)
kMaxCandidates == 8
kSampleModels == 30
kAnswerLimit == 1400

\* the names of kPromptSuite, in order
kPromptSuite == <<"reasoning", "coding", "axui">>

GitHubPreferred == <<"gpt-4.1", "gpt-4o", "gpt-4o-mini", "deepseek-r1", "phi-4">>

\* the calls of AuditEngine::Run in their order, each with the adapter it
\* runs (shape), the tag of its log lines and its preferred models
ProviderTable == <<
  [id |-> "openrouter", name |-> "OpenRouter", shape |-> "openai", tag |-> "OpenRouter",
   preferred |-> <<"openai/gpt-4.1", "openai/gpt-4o", "anthropic/claude-3.7-sonnet",
                   "google/gemini-2.5-pro">>],
  [id |-> "google_ai_studio", name |-> "Google AI Studio", shape |-> "google",
   tag |-> "Google AI Studio",
   preferred |-> <<"models/gemini-2.5-pro", "models/gemini-2.5-flash",
                   "models/gemini-2.0-flash", "models/gemini-1.5-pro">>],
  [id |-> "mistral", name |-> "Mistral", shape |-> "openai", tag |-> "Mistral",
   preferred |-> <<"mistral-large-latest", "magistral-medium-latest",
                   "mistral-medium-latest", "mistral-small-latest">>],
  [id |-> "vercel", name |-> "Vercel AI Gateway", shape |-> "vercel", tag |-> "Vercel",
   preferred |-> <<"openai/gpt-5", "openai/gpt-4.1", "openai/gpt-4o",
                   "anthropic/claude-3.7-sonnet", "google/gemini-2.5-pro">>],
  [id |-> "groq", name |-> "Groq", shape |-> "openai", tag |-> "Groq",
   preferred |-> <<"llama-3.3-70b-versatile", "deepseek-r1-distill-llama-70b",
                   "qwen/qwen3-32b">>],
  [id |-> "cohere", name |-> "Cohere", shape |-> "cohere", tag |-> "Cohere",
   preferred |-> <<"command-a-reasoning-08-2025", "command-r-08-2024",
                   "command-a-vision-07-2025">>],
  [id |-> "ai21", name |-> "AI21", shape |-> "openai", tag |-> "AI21",
   preferred |-> <<"jamba-1.5-large", "jamba-large", "jamba-1.5-mini", "jamba-mini">>],
  [id |-> "github_chatgpt", name |-> "GitHub PAT (chatgpt)", shape |-> "github",
   tag |-> "GitHub PAT (chatgpt)", preferred |-> GitHubPreferred],
  [id |-> "github_chatgpt5", name |-> "GitHub PAT (chatgpt5)", shape |-> "github",
   tag |-> "GitHub PAT (chatgpt5)", preferred |-> GitHubPreferred],
  [id |-> "github_deepseek", name |-> "GitHub PAT (deepseek)", shape |-> "github",
   tag |-> "GitHub PAT (deepseek)", preferred |-> GitHubPreferred],
  [id |-> "github_jamba", name |-> "GitHub PAT (jamba)", shape |-> "github",
   tag |-> "GitHub PAT (jamba)", preferred |-> GitHubPreferred] >>

NumProviders == Len(ProviderTable)
ProviderIds == [i \in 1..NumProviders |-> ProviderTable[i].id]

\* Vercel and GitHub validate the token before listing models
HasAuthStep(shape) == shape \in {"vercel", "github"}

AuthLogLine(cfg) ==
  IF cfg.shape = "vercel" THEN "[Vercel] Validating user token"
  ELSE "[" \o cfg.name \o "] Validating GitHub user scope"

ListLogLine(cfg) ==
  IF cfg.shape = "vercel" THEN "[Vercel] Fetching AI Gateway models"
  ELSE IF cfg.shape = "github" THEN "[" \o cfg.name \o "] Fetching GitHub Models catalog"
  ELSE "[" \o cfg.name \o "] Fetching model list"

NoModelsNote(shape) ==
  CASE shape = "openai" -> "No models discovered or access denied."
    [] shape = "google" -> "No generateContent models discovered."
    [] shape = "cohere" -> "No chat-capable models inferred from model names."
    [] shape = "vercel" -> "No models discovered from AI Gateway."
    [] shape = "github" -> "No models discovered for this token."

\* the models the list response yields for this adapter
Discover(shape, list_json) ==
  CASE shape = "google" -> GoogleDiscovered(list_json)
    [] shape = "cohere" -> CohereDiscovered(list_json)
    [] OTHER -> ExtractModelIds(list_json)

\* the list the adapter tests for emptiness, ranks and falls back on:
\* `discovered`, and in AuditCohere `chat_candidates`
CandidatePool(shape, discovered) ==
  IF shape = "cohere" THEN CohereChatCandidates(discovered) ELSE discovered

\* the answer extractor each adapter applies to a chat response
ExtractAnswer(shape, j) ==
  CASE shape = "google" -> ExtractGoogleText(j)
    [] shape = "cohere" -> ExtractCohereText(j)
    [] OTHER -> ExtractOpenAIText(j)

\* the JSON payload of a chat request; AuditVercel's has no temperature
ChatPayload(shape, model, content, max_tokens) ==
  IF shape = "vercel"
  THEN [model |-> model, content |-> content, max_tokens |-> max_tokens]
  ELSE [model |-> model, content |-> content, temperature |-> 0,
        max_tokens |-> max_tokens]

Snippet(s, limit) == IF Len(s) <= limit THEN s ELSE SubSeq(s, 1, limit)

\* ProviderAudit with key_supplied set before the key is looked at
NewAuditKeySupplied(cfg, key) ==
  [provider_id |-> cfg.id, provider_name |-> cfg.name, api_key |-> key,
   key_supplied |-> TRUE,
   auth_status |-> -1, models_status |-> -1,
   auth_latency_ms |-> -1, models_latency_ms |-> -1,
   sample_models |-> <<>>, working_models |-> <<>>, failing_models |-> <<>>,
   model_used |-> "", model_checks |-> <<>>, prompt_tests |-> <<>>,
   request_traces |-> <<>>,
   score_reasoning |-> 0, score_coding |-> 0, score_axui |-> 0, score_total |-> 0,
   total_requests |-> 0, successful_requests |-> 0, failed_requests |-> 0,
   avg_latency_ms |-> -1, notes |-> "",
   capability_tags |-> <<>>, max_context_seen |-> -1, raw_payload |-> JNull]

\* ProviderAudit as the adapters initialise it
NewAudit(cfg, key) ==
  [provider_id |-> cfg.id, provider_name |-> cfg.name, api_key |-> key,
   key_supplied |-> key # "",
   auth_status |-> -1, models_status |-> -1,
   auth_latency_ms |-> -1, models_latency_ms |-> -1,
   sample_models |-> <<>>, working_models |-> <<>>, failing_models |-> <<>>,
   model_used |-> "", model_checks |-> <<>>, prompt_tests |-> <<>>,
   request_traces |-> <<>>,
   score_reasoning |-> 0, score_coding |-> 0, score_axui |-> 0, score_total |-> 0,
   total_requests |-> 0, successful_requests |-> 0, failed_requests |-> 0,
   avg_latency_ms |-> -1, notes |-> "",
   capability_tags |-> <<>>, max_context_seen |-> -1, raw_payload |-> JNull]

(***************************************************************************)
(* The Sender (Request) and the remote servers                             *)
(***************************************************************************)
\* at most this many responses of one run differ from the server's usual one
MaxFaults == 1

\* an answer that scores on all three prompts of the suite
AnswerText == "5 Minutes s[::-1] close_popup"

\* a chat response body in the format the adapter's extractor reads
ChatAnswerBody(shape) ==
  CASE shape = "google" ->
         JObj([candidates |-> JArr(<<JObj([content |->
           JObj([parts |-> JArr(<<JObj([text |-> JStr(AnswerText)])>>)])])>>)])
    [] shape = "cohere" -> JObj([text |-> JStr(AnswerText)])
    [] OTHER ->
         JObj([choices |-> JArr(<<JObj([message |->
           JObj([content |-> JStr(AnswerText)])])>>)])

GenModel(name) ==
  JObj([name |-> JStr(name),
        supportedGenerationMethods |-> JArr(<<JStr("generateContent")>>)])

BodyData ==
  JObj([data |-> JArr(<<JObj([id |-> JStr("openai/GPT-4o"),
                              context_length |-> JInt(128000),
                              max_completion_tokens |-> JInt(16384)]),
                        JObj([id |-> JStr("embed-v3")]),
                        JObj([id |-> JStr("openai/GPT-4o")])>>)])
BodyModels ==
  JObj([models |-> JArr(<<GenModel("models/gemini-2.5-pro"),
                          JObj([name |-> JStr("models/embedding-001"),
                                supportedGenerationMethods |->
                                  JArr(<<JStr("embedContent")>>)]),
                          JStr("command-r-08-2024")>>)])
BodyEmbedFirst ==
  JObj([models |-> JArr(<<GenModel("zeta"), GenModel("embed-english")>>)])
BodyEmbedOnly == JObj([models |-> JArr(<<JStr("embed-english")>>)])
BodyMany ==
  JObj([models |-> JArr(<<GenModel("m9"), GenModel("gpt-4o-mini"), GenModel("m1"),
                          GenModel("Command-R-08-2024"), GenModel("m3"),
                          GenModel("models/gemini-2.5-pro"), GenModel("m5"),
                          GenModel("m6"), GenModel("openai/GPT-4o"),
                          GenModel("m8")>>)])

\* the bodies a list-models endpoint may answer with
ListBodies ==
  {InvalidBody, EmptyObject, BodyData, BodyModels, BodyEmbedFirst, BodyEmbedOnly,
   BodyMany}

\* HttpResponse as Request fills it in
Response(status, latency_ms, body, error) ==
  [status |-> status, latency_ms |-> latency_ms, body |-> body, error |-> error]

\* Request when the transfer fails: no status line was read
TimedOut == Response(0, 3, InvalidBody, "Timeout was reached")
\* Request when curl_easy_init fails: the defaults of HttpResponse
InitFailed == Response(-1, -1, InvalidBody, "curl_easy_init failed")

\* every result Request can hand back for a chat request
ChatResponses(shape) ==
  { Response(200, 2, ChatAnswerBody(shape), ""),
    Response(200, 1, EmptyObject, ""),
    Response(200, 1, InvalidBody, ""),
    Response(429, 1, ChatAnswerBody(shape), ""),
    Response(200, 3, ChatAnswerBody(shape), "Transferred a partial file"),
    TimedOut, InitFailed }

\* every result Request can hand back for a list-models request
ListResponses(body) ==
  { Response(200, 2, body, ""), Response(401, 1, body, ""),
    Response(401, 1, EmptyObject, ""), TimedOut, InitFailed }

\* every result Request can hand back for the identity check
AuthResponses ==
  { Response(200, 2, EmptyObject, ""), Response(401, 1, EmptyObject, ""), TimedOut }

\* what the servers of this run usually answer to each kind of request
UsualResponse(server, shape, kind) ==
  CASE kind = "auth" -> Response(200, 2, EmptyObject, "")
    [] kind = "list" -> Response(200, 2, server.list_body, "")
    [] kind = "chat" -> IF server.chat_ok
                        THEN Response(200, 2, ChatAnswerBody(shape), "")
                        ELSE Response(429, 1, ChatAnswerBody(shape), "")

AllResponses(server, shape, kind) ==
  CASE kind = "auth" -> AuthResponses
    [] kind = "list" -> ListResponses(server.list_body)
    [] kind = "chat" -> ChatResponses(shape)

(***************************************************************************)
(* The key maps and servers a run starts from                              *)
(***************************************************************************)
ApiKey == "sk-key"

\* a key map holding a key for the providers of S, an empty value for
\* mistral (unless it is in S) and no entry for the others
KeyMap(S) ==
  [id \in S \cup {"mistral"} |-> IF id \in S THEN ApiKey ELSE ""]

Scenarios ==
  \* no key at all, and one provider of each adapter shape alone
  { [keys |-> KeyMap(S), list_body |-> b, chat_ok |-> c] :
      S \in { {}, {"openrouter"}, {"google_ai_studio"}, {"vercel"}, {"cohere"},
              {"github_jamba"} },
      b \in ListBodies, c \in BOOLEAN }
  \cup
  \* two providers in a row with small model lists
  { [keys |-> KeyMap({"openrouter", "google_ai_studio"}), list_body |-> b,
     chat_ok |-> c] : b \in {BodyData, BodyModels}, c \in BOOLEAN }
  \cup
  \* every provider keyed, against servers that list no model
  { [keys |-> KeyMap(Range(ProviderIds)), list_body |-> b, chat_ok |-> TRUE] :
      b \in {InvalidBody, EmptyObject} }

(***************************************************************************)
(* State                                                                   *)
(***************************************************************************)
VARIABLES
  keys,              \* Run's argument: provider id -> key
  server,            \* what the remote servers of this run usually answer
  faults,            \* responses so far that differed from the usual one
  cancel_requested,  \* the std::atomic<bool> shared with the UI thread
  pc,                \* where the worker is in Run / in the adapter
  idx,               \* the provider Run is at, 1..11 (12 once past the last)
  report,            \* AuditReport: run_logs, providers
  log_lines,         \* the lines handed to the log callback
  p,                 \* the adapter's ProviderAudit under construction
  discovered,        \* adapter local: the discovered model ids
  pool,              \* adapter local: the ids candidates are ranked from
  candidates,        \* adapter local: TopCandidates(...)
  ci,                \* adapter local: position in the running loop
  sent,              \* every request handed to Request so far, in order
  received,          \* every HttpResponse Request has returned so far, in order
  call,              \* a function of the engine called on its own: name, arguments
  result,            \* what that call returned
  app                \* main(): the UI thread, the worker thread, SharedState

vars == <<keys, server, faults, cancel_requested, pc, idx, report, log_lines, p,
          discovered, pool, candidates, ci, sent, received, call, result, app>>

\* the engine is run without the application around it
NoApp == [ui |-> "none"]

\* no function is called on its own during a run of the engine
NoCall == [fn |-> "none"]
NoResult == [done |-> FALSE]

NoAudit == <<>>

Init ==
  /\ \E sc \in Scenarios :
       /\ keys = sc.keys
       /\ server = [list_body |-> sc.list_body, chat_ok |-> sc.chat_ok]
  /\ faults = 0
  /\ cancel_requested = FALSE
  /\ pc = "run_entry"
  /\ idx = 1
  /\ report = [run_logs |-> <<>>, providers |-> <<>>]
  /\ log_lines = <<>>
  /\ p = NoAudit
  /\ discovered = <<>>
  /\ pool = <<>>
  /\ candidates = <<>>
  /\ ci = 0
  /\ sent = <<>>
  /\ received = <<>>
  /\ call = NoCall
  /\ result = NoResult
  /\ app = NoApp

Cfg == ProviderTable[idx]

\* key_of: the key of provider k, empty when the map has no entry
key_of(k) == IF k \in DOMAIN keys THEN keys[k] ELSE ""

\* push_log: the line goes to report.run_logs and to the callback
\* push_log that keeps the line from the callback
push_logReportOnly(message) ==
  /\ report' = [report EXCEPT !.run_logs = Append(@, message)]
  /\ log_lines' = log_lines

push_log(message) ==
  /\ report' = [report EXCEPT !.run_logs = Append(@, message)]
  /\ log_lines' = Append(log_lines, message)

\* Run giving up on the remaining providers after an audit with a failure
ReturnAuditStopOnFailure(pa) ==
  /\ report' = [report EXCEPT !.providers = Append(@, pa)]
  /\ p' = NoAudit
  /\ discovered' = <<>>
  /\ pool' = <<>>
  /\ candidates' = <<>>
  /\ ci' = 0
  /\ idx' = idx + 1
  /\ pc' = IF idx = NumProviders \/ pa.failed_requests > 0
           THEN "run_end" ELSE "check_provider"

\* Run keeping the returned audit in the place of the last one reported
ReturnAuditOverLast(pa) ==
  /\ report' = [report EXCEPT !.providers =
                  IF @ = <<>> THEN <<pa>> ELSE [@ EXCEPT ![Len(@)] = pa]]
  /\ p' = NoAudit
  /\ discovered' = <<>>
  /\ pool' = <<>>
  /\ candidates' = <<>>
  /\ ci' = 0
  /\ idx' = idx + 1
  /\ pc' = IF idx = NumProviders THEN "run_end" ELSE "check_provider"

\* the adapter returns pa and Run appends it to report.providers
ReturnAudit(pa) ==
  /\ report' = [report EXCEPT !.providers = Append(@, pa)]
  /\ p' = NoAudit
  /\ discovered' = <<>>
  /\ pool' = <<>>
  /\ candidates' = <<>>
  /\ ci' = 0
  /\ idx' = idx + 1
  /\ pc' = IF idx = NumProviders THEN "run_end" ELSE "check_provider"

\* the NoModels exit without its FinalizeMetrics call
NoModelsExitNoMetrics(pa) ==
  /\ report' = [report EXCEPT !.providers =
                  Append(@, [pa EXCEPT !.notes = NoModelsNote(Cfg.shape)])]
  /\ p' = NoAudit
  /\ discovered' = <<>>
  /\ pool' = <<>>
  /\ candidates' = <<>>
  /\ ci' = 0
  /\ idx' = idx + 1
  /\ pc' = IF idx = NumProviders THEN "run_end" ELSE "check_provider"

\* the adapter's exit when nothing is left to probe: the note, the metrics
NoModelsExit(pa) ==
  ReturnAudit(FinalizeMetrics([pa EXCEPT !.notes = NoModelsNote(Cfg.shape)]))

\* the cancellation exit grading the answers collected so far
CancelExitScored(pa) ==
  /\ report' = [report EXCEPT !.providers =
        Append(@, FinalizeMetrics(ScoreProvider(
                    [pa EXCEPT !.notes = @ \o " Audit canceled by user."])))]
  /\ p' = NoAudit
  /\ discovered' = <<>>
  /\ pool' = <<>>
  /\ candidates' = <<>>
  /\ ci' = 0
  /\ idx' = idx + 1
  /\ pc' = IF idx = NumProviders THEN "run_end" ELSE "check_provider"

\* the adapter's exit at a cancellation checkpoint
CancelExit(pa) ==
  ReturnAudit(FinalizeMetrics([pa EXCEPT !.notes = @ \o " Audit canceled by user."]))

\* Request returns r: the usual response, or another one while the run's
\* budget of unusual responses lasts
Returns(r, kind) ==
  /\ r \in AllResponses(server, Cfg.shape, kind)
  /\ received' = Append(received, r)
  /\ \/ r = UsualResponse(server, Cfg.shape, kind) /\ faults' = faults
     \/ r # UsualResponse(server, Cfg.shape, kind) /\ faults < MaxFaults
        /\ faults' = faults + 1

(***************************************************************************)
(* AuditEngine::Run                                                        *)
(***************************************************************************)
\* Run without the check at its start
RunEntryNoCheck ==
  /\ pc = "run_entry"
  /\ push_log("Starting full provider audit")
  /\ pc' = "adapter_entry"
  /\ UNCHANGED <<app, call, result, received, keys, server, faults, cancel_requested, idx, p, discovered, pool,
                 candidates, ci, sent>>

\* lines 1452-1460: the check at the start of Run
RunEntry ==
  /\ pc = "run_entry"
  /\ IF cancel_requested
     THEN /\ push_log("Audit canceled before start.")
          /\ pc' = "done"
     ELSE /\ push_log("Starting full provider audit")
          /\ pc' = "adapter_entry"
  /\ UNCHANGED <<app, call, result, received, keys, server, faults, cancel_requested, idx, p, discovered, pool,
                 candidates, ci, sent>>

\* the second provider called as the first is, without the test of the flag
CheckProviderSecondUnguarded ==
  /\ pc = "check_provider"
  /\ IF cancel_requested /\ idx # 2
     THEN /\ idx' = idx + 1
          /\ pc' = IF idx = NumProviders THEN "run_end" ELSE "check_provider"
     ELSE /\ idx' = idx
          /\ pc' = "adapter_entry"
  /\ UNCHANGED <<app, call, result, received, keys, server, faults, cancel_requested, report, log_lines, p,
                 discovered, pool, candidates, ci, sent>>

\* the `if (!cancel_requested.load())` in front of providers 2..11
CheckProvider ==
  /\ pc = "check_provider"
  /\ IF cancel_requested
     THEN /\ idx' = idx + 1
          /\ pc' = IF idx = NumProviders THEN "run_end" ELSE "check_provider"
     ELSE /\ idx' = idx
          /\ pc' = "adapter_entry"
  /\ UNCHANGED <<app, call, result, received, keys, server, faults, cancel_requested, report, log_lines, p,
                 discovered, pool, candidates, ci, sent>>

\* the end of Run that writes the same last line whatever the flag holds
RunEndAlwaysCompleted ==
  /\ pc = "run_end"
  /\ push_log("Audit completed.")
  /\ pc' = "done"
  /\ UNCHANGED <<app, call, result, received, keys, server, faults, cancel_requested, idx, p, discovered, pool,
                 candidates, ci, sent>>

\* lines 1527-1536: the last log line and the return
RunEnd ==
  /\ pc = "run_end"
  /\ IF cancel_requested
     THEN push_log("Audit ended early due to cancellation request.")
     ELSE push_log("Audit completed.")
  /\ pc' = "done"
  /\ UNCHANGED <<app, call, result, received, keys, server, faults, cancel_requested, idx, p, discovered, pool,
                 candidates, ci, sent>>

(***************************************************************************)
(* The provider adapters                                                   *)
(***************************************************************************)
\* the adapter is called: ProviderAudit set up, the key tested, the first
\* log line written
AdapterEntry ==
  /\ pc = "adapter_entry"
  /\ LET key == key_of(Cfg.id)
         pa == NewAudit(Cfg, key)
     IN IF key = ""
        THEN /\ ReturnAudit([pa EXCEPT !.notes = "No API key supplied."])
             /\ UNCHANGED log_lines
        ELSE /\ p' = pa
             /\ IF HasAuthStep(Cfg.shape)
                THEN push_log(AuthLogLine(Cfg)) /\ pc' = "send_auth"
                ELSE push_log(ListLogLine(Cfg)) /\ pc' = "send_list"
             /\ UNCHANGED <<idx, discovered, pool, candidates, ci>>
  /\ UNCHANGED <<app, call, result, received, keys, server, faults, cancel_requested, sent>>

\* Request("GET", <user url>): the identity check leaves the worker
SendAuth ==
  /\ pc = "send_auth"
  /\ sent' = Append(sent, [provider |-> Cfg.id, flag |-> cancel_requested, step |-> "auth_user"])
  /\ pc' = "wait_auth"
  /\ UNCHANGED <<app, call, result, received, keys, server, faults, cancel_requested, idx, report, log_lines, p,
                 discovered, pool, candidates, ci>>

\* the identity check returns
AuthReturn ==
  /\ pc = "wait_auth"
  /\ \E r \in AuthResponses :
       /\ Returns(r, "auth")
       /\ p' = [AddTrace(p, "auth_user", r) EXCEPT
                  !.auth_status = r.status, !.auth_latency_ms = r.latency_ms]
  /\ push_log(ListLogLine(Cfg))
  /\ pc' = "send_list"
  /\ UNCHANGED <<app, call, result, keys, server, cancel_requested, idx, discovered, pool, candidates,
                 ci, sent>>

\* Request("GET", list_url): the list-models request leaves the worker
SendList ==
  /\ pc = "send_list"
  /\ sent' = Append(sent, [provider |-> Cfg.id, flag |-> cancel_requested, step |-> "list_models"])
  /\ pc' = "wait_list"
  /\ UNCHANGED <<app, call, result, received, keys, server, faults, cancel_requested, idx, report, log_lines, p,
                 discovered, pool, candidates, ci>>

\* the list-models request returns: discovery, and the NoModels exit
\* p.raw_payload once the list response is parsed; the identity response is
\* the one received just before
RawPayload(shape, got, list_json) ==
  CASE shape = "vercel" ->
         JObj([auth_response |-> ParseJson(got[Len(got)].body),
               models_response |-> list_json])
    [] shape = "github" ->
         JObj([user_response |-> ParseJson(got[Len(got)].body),
               models_response |-> list_json])
    [] OTHER -> JObj([models_response |-> list_json])

ListReturn ==
  /\ pc = "wait_list"
  /\ \E r \in ListResponses(server.list_body) :
       /\ Returns(r, "list")
       /\ LET list_json == ParseJson(r.body)
              found == Discover(Cfg.shape, list_json)
              from == CandidatePool(Cfg.shape, found)
              pa == [AddTrace(p, "list_models", r) EXCEPT
                       !.models_status = r.status,
                       !.models_latency_ms = r.latency_ms,
                       !.raw_payload = RawPayload(Cfg.shape, received, list_json),
                       !.sample_models =
                          SubSeq(found, 1, Min(Len(found), kSampleModels)),
                       !.max_context_seen = ExtractMaxContext(list_json),
                       !.capability_tags = ExtractCapabilities(found, list_json)]
          IN IF Len(from) = 0
             THEN NoModelsExit(pa)
             ELSE /\ p' = pa
                  /\ discovered' = found
                  /\ pool' = from
                  /\ candidates' = TopCandidates(from, Cfg.preferred, kMaxCandidates)
                  /\ ci' = 1
                  /\ pc' = "check_model"
                  /\ UNCHANGED <<idx, report>>
  /\ UNCHANGED <<app, call, result, keys, server, cancel_requested, log_lines, sent>>

\* the model-check loop without its read of the flag
CheckModelNoRead ==
  /\ pc = "check_model"
  /\ pc' = "send_check"
  /\ UNCHANGED <<app, call, result, received, keys, server, faults, cancel_requested, idx, report, log_lines, p,
                 discovered, pool, candidates, ci, sent>>

\* head of the model-check loop: the cancellation checkpoint
CheckModel ==
  /\ pc = "check_model"
  /\ IF cancel_requested
     THEN CancelExit(p)
     ELSE /\ pc' = "send_check"
          /\ UNCHANGED <<idx, report, p, discovered, pool, candidates, ci>>
  /\ UNCHANGED <<app, call, result, received, keys, server, faults, cancel_requested, log_lines, sent>>

\* Request("POST", chat_url): the probe of candidates[ci] leaves the worker
SendCheck ==
  /\ pc = "send_check"
  /\ sent' = Append(sent,
       [provider |-> Cfg.id, flag |-> cancel_requested, step |-> "model_check",
        payload |-> ChatPayload(Cfg.shape, candidates[ci],
                                "Reply with exactly: OK", 64)])
  /\ pc' = "wait_check"
  /\ UNCHANGED <<app, call, result, received, keys, server, faults, cancel_requested, idx, report, log_lines, p,
                 discovered, pool, candidates, ci>>

\* mc.working decided on the status alone
WorkingByStatus(shape, r) == Is2xx(r.status)

\* mc.working
Working(shape, r) ==
  Is2xx(r.status) /\ ExtractAnswer(shape, ParseJson(r.body)) # ""

\* model_used taken from the back of working_models
PickModelUsedBack(pa, from, preferred) ==
  IF Len(pa.working_models) > 0 THEN pa.working_models[Len(pa.working_models)]
  ELSE ChooseModel(from, preferred)

\* model_used once the model checks are over
PickModelUsed(pa, from, preferred) ==
  IF Len(pa.working_models) > 0 THEN pa.working_models[1]
  ELSE ChooseModel(from, preferred)

\* a probe that failed is sent once more
ModelCheckReturnRetries ==
  /\ pc = "wait_check"
  /\ \E r \in ChatResponses(Cfg.shape) :
       /\ Returns(r, "chat")
       /\ LET model == candidates[ci]
              working == Working(Cfg.shape, r)
              mc == [model |-> model, status |-> r.status,
                     latency_ms |-> r.latency_ms, working |-> working]
              pa == [AddTrace(p, "model_check:" \o model, r) EXCEPT
                       !.model_checks = Append(@, mc),
                       !.working_models = IF working THEN Append(@, model) ELSE @,
                       !.failing_models = IF working THEN @ ELSE Append(@, model)]
          IN IF ~working /\ model \notin Range(p.failing_models)
             THEN p' = pa /\ ci' = ci /\ pc' = "check_model"
             ELSE IF ci < Len(candidates)
             THEN p' = pa /\ ci' = ci + 1 /\ pc' = "check_model"
             ELSE /\ p' = [pa EXCEPT !.model_used =
                                        PickModelUsed(pa, pool, Cfg.preferred)]
                  /\ ci' = 1
                  /\ pc' = "check_prompt"
  /\ UNCHANGED <<app, call, result, keys, server, cancel_requested, idx, report, log_lines, discovered,
                 pool, candidates, sent>>

\* the probe returns: its ModelCheck, and after the last one model_used
ModelCheckReturn ==
  /\ pc = "wait_check"
  /\ \E r \in ChatResponses(Cfg.shape) :
       /\ Returns(r, "chat")
       /\ LET model == candidates[ci]
              working == Working(Cfg.shape, r)
              mc == [model |-> model, status |-> r.status,
                     latency_ms |-> r.latency_ms, working |-> working]
              pa == [AddTrace(p, "model_check:" \o model, r) EXCEPT
                       !.model_checks = Append(@, mc),
                       !.working_models = IF working THEN Append(@, model) ELSE @,
                       !.failing_models = IF working THEN @ ELSE Append(@, model)]
          IN IF ci < Len(candidates)
             THEN p' = pa /\ ci' = ci + 1 /\ pc' = "check_model"
             ELSE /\ p' = [pa EXCEPT !.model_used =
                                        PickModelUsed(pa, pool, Cfg.preferred)]
                  /\ ci' = 1
                  /\ pc' = "check_prompt"
  /\ UNCHANGED <<app, call, result, keys, server, cancel_requested, idx, report, log_lines, discovered,
                 pool, candidates, sent>>

\* head of the prompt loop: the cancellation checkpoint, then the log line
CheckPrompt ==
  /\ pc = "check_prompt"
  /\ IF cancel_requested
     THEN CancelExit(p) /\ UNCHANGED log_lines
     ELSE /\ push_log("[" \o Cfg.tag \o "] Prompt test: " \o kPromptSuite[ci])
          /\ pc' = "send_prompt"
          /\ UNCHANGED <<idx, p, discovered, pool, candidates, ci>>
  /\ UNCHANGED <<app, call, result, received, keys, server, faults, cancel_requested, sent>>

\* the prompts sent to the first candidate instead of model_used
SendPromptFirstCandidate ==
  /\ pc = "send_prompt"
  /\ sent' = Append(sent,
       [provider |-> Cfg.id, flag |-> cancel_requested, step |-> "prompt_test",
        payload |-> ChatPayload(Cfg.shape, candidates[1], kPromptSuite[ci], 300)])
  /\ pc' = "wait_prompt"
  /\ UNCHANGED <<app, call, result, received, keys, server, faults, cancel_requested, idx, report, log_lines, p,
                 discovered, pool, candidates, ci>>

\* Request("POST", chat_url): prompt ci leaves the worker
SendPrompt ==
  /\ pc = "send_prompt"
  /\ sent' = Append(sent,
       [provider |-> Cfg.id, flag |-> cancel_requested, step |-> "prompt_test",
        payload |-> ChatPayload(Cfg.shape, p.model_used, kPromptSuite[ci], 300)])
  /\ pc' = "wait_prompt"
  /\ UNCHANGED <<app, call, result, received, keys, server, faults, cancel_requested, idx, report, log_lines, p,
                 discovered, pool, candidates, ci>>

\* the prompt returns: its PromptTest, and after the third the scores
PromptReturn ==
  /\ pc = "wait_prompt"
  /\ \E r \in ChatResponses(Cfg.shape) :
       /\ Returns(r, "chat")
       /\ LET name == kPromptSuite[ci]
              t == [name |-> name, status |-> r.status, latency_ms |-> r.latency_ms,
                    answer |-> Snippet(ExtractAnswer(Cfg.shape, ParseJson(r.body)),
                                       kAnswerLimit)]
              pa == [AddTrace(p, "prompt_test:" \o name, r) EXCEPT
                       !.prompt_tests = Append(@, t)]
          IN IF ci < Len(kPromptSuite)
             THEN /\ p' = pa /\ ci' = ci + 1 /\ pc' = "check_prompt"
                  /\ UNCHANGED <<idx, report, discovered, pool, candidates>>
             ELSE ReturnAudit(FinalizeMetrics(ScoreProvider(pa)))
  /\ UNCHANGED <<app, call, result, keys, server, cancel_requested, log_lines, sent>>

(***************************************************************************)
(* The UI thread                                                           *)
(***************************************************************************)
\* the Stop button (or closing the window) while the audit runs
Stop ==
  /\ pc # "done"
  /\ ~cancel_requested
  /\ cancel_requested' = TRUE
  /\ UNCHANGED <<app, call, result, received, keys, server, faults, pc, idx, report, log_lines, p, discovered,
                 pool, candidates, ci, sent>>

Next ==
  \/ RunEntry \/ CheckProvider \/ RunEnd
  \/ AdapterEntry
  \/ SendAuth \/ AuthReturn
  \/ SendList \/ ListReturn
  \/ CheckModel \/ SendCheck \/ ModelCheckReturn
  \/ CheckPrompt \/ SendPrompt \/ PromptReturn
  \/ Stop

Spec == Init /\ [][Next]_vars

(***************************************************************************)
(* The functions of the engine called on their own                         *)
(***************************************************************************)
MaxDiscovered == 3
MaxPreferred == 2
MaxCount == 3

\* the sequences over S of length 0..n
SeqsUpTo(S, n) == UNION {[1..k -> S] : k \in 0..n}

\* model ids (one of them empty) and preferred names (one matches nothing,
\* one is empty and matches everything)
RankIds == {"A", "B", "AB", ""}
RankNames == {"a", "B", "z", ""}

TopCandidatesCalls ==
  { [fn |-> "TopCandidates", discovered |-> d, preferred |-> pr, max_count |-> n] :
      d \in SeqsUpTo(RankIds, MaxDiscovered),
      pr \in SeqsUpTo(RankNames, MaxPreferred),
      n \in 0..MaxCount }
  \cup
  { [fn |-> "TopCandidates", discovered |-> <<"A", "B", "C">>, preferred |-> <<"B">>,
     max_count |-> 2] }

ChooseModelCalls ==
  { [fn |-> "ChooseModel", discovered |-> d, preferred |-> pr] :
      d \in SeqsUpTo(RankIds, MaxDiscovered),
      pr \in SeqsUpTo(RankNames, MaxPreferred) }

\* a ProviderAudit holding the three prompt tests with the given answers
AuditWithAnswers(reasoning, coding, axui) ==
  LET test(name, answer) ==
        [name |-> name, status |-> 200, latency_ms |-> 2, answer |-> answer]
  IN [NewAudit(ProviderTable[1], ApiKey) EXCEPT
        !.model_used = "openai/GPT-4o",
        !.prompt_tests = <<test("reasoning", reasoning), test("coding", coding),
                           test("axui", axui)>>]

ReasoningAnswers ==
  {"5", "55", "5 Minutes", "About Five Minutes.", "five minute", "", "close_popup"}
CodingAnswers == {"s[::-1]", "return ''.join(Reversed(s))", "reversed", "s[::1]", ""}
AxuiAnswers ==
  {"close_popup then btn_continue", "Click CLOSE_POPUP", "btn_continue",
   "close popup", "5 minutes", ""}

ScoreProviderCalls ==
  { [fn |-> "ScoreProvider", p |-> AuditWithAnswers(r, c, a)] :
      r \in ReasoningAnswers, c \in CodingAnswers, a \in AxuiAnswers }

MaxTraces == 3

\* a RequestTrace with the given latency
TraceOf(status, latency_ms, error) ==
  [step |-> "list_models", status |-> status, latency_ms |-> latency_ms,
   error |-> error]

\* a ProviderAudit whose traces have the given latencies, in order
AuditWithLatencies(lats) ==
  [NewAudit(ProviderTable[1], ApiKey) EXCEPT
     !.request_traces = [i \in 1..Len(lats) |-> TraceOf(200, lats[i], "")],
     !.total_requests = Len(lats),
     !.successful_requests = Len(lats)]

Latencies == {-1, 0, 10, 20, 25, 30}

FinalizeMetricsCalls ==
  { [fn |-> "FinalizeMetrics", p |-> AuditWithLatencies(lats)] :
      lats \in SeqsUpTo(Latencies, MaxTraces) }

\* audits AddTrace is applied to: a new one, one with a successful and one
\* with a failed request behind it
TracedAudits ==
  { NewAudit(ProviderTable[1], ApiKey),
    [NewAudit(ProviderTable[4], ApiKey) EXCEPT
       !.request_traces = <<TraceOf(200, 2, "")>>,
       !.total_requests = 1, !.successful_requests = 1],
    [NewAudit(ProviderTable[4], ApiKey) EXCEPT
       !.request_traces = <<TraceOf(0, 3, "Timeout was reached")>>,
       !.total_requests = 1, !.failed_requests = 1] }

Statuses == {-1, 0, 199, 200, 204, 299, 300, 404}

AddTraceCalls ==
  { [fn |-> "AddTrace", p |-> a, step |-> "model_check:m1",
     r |-> Response(st, lat, EmptyObject, err)] :
      a \in TracedAudits, st \in Statuses, lat \in {-1, 0, 5},
      err \in {"", "Timeout was reached"} }

\* header names as servers write them and as HeaderCallback stores them
HeaderNames ==
  {"x-ratelimit-remaining", "content-type", "retry-after", "x-quota-used", "date",
   "X-RateLimit-Limit", "Retry-After"}

RateLimitHeadersCalls ==
  { [fn |-> "RateLimitHeaders", headers |-> [k \in K |-> "v:" \o k]] :
      K \in SUBSET HeaderNames }
  \cup
  { [fn |-> "RateLimitHeaders",
     headers |-> [k \in {"x-ratelimit-remaining", "content-type"} |->
                    IF k = "content-type" THEN "json" ELSE "10"]] }

MaxItems == 2

\* elements of a model array
ListItems ==
  { JStr("m1"), JStr("m2"), JInt(3), JArr(<<JStr("m6")>>),
    JObj([id |-> JStr("m1")]), JObj([name |-> JStr("m2")]),
    JObj([id |-> JStr("m4"), name |-> JStr("m5")]),
    JObj([id |-> JInt(7), name |-> JStr("m3")]), JObj([id |-> JInt(1)]) }

ListPayloads ==
  { JArr(a) : a \in SeqsUpTo(ListItems, MaxItems) }
  \cup { JObj([data |-> JArr(a)]) : a \in SeqsUpTo(ListItems, MaxItems) }
  \cup { JObj([models |-> JArr(a)]) : a \in SeqsUpTo(ListItems, MaxItems) }
  \cup { JObj([data |-> JArr(<<a>>), models |-> JArr(<<b>>)]) :
           a \in ListItems, b \in ListItems }
  \cup { JStr("m1"), JInt(3), EmptyObject, JObj([data |-> JStr("m1")]),
         JObj([object |-> JStr("list"), items |-> JArr(<<JStr("m1")>>)]),
         JObj([data |-> JObj([id |-> JStr("m1")]), models |-> JArr(<<JStr("m2")>>)]) }

ExtractModelIdsCalls ==
  { [fn |-> "ExtractModelIds", j |-> j] : j \in ListPayloads }

MaxParts == 2

\* elements of a content array
PartItems ==
  { JObj([text |-> JStr("x")]), JObj([text |-> JStr("y")]), JObj([text |-> JStr("")]),
    JObj([text |-> JInt(1)]), JObj([type |-> JStr("image")]), JStr("z") }

\* what a response carries where the answer is looked for
Contents ==
  { JStr("x"), JStr(""), JInt(1), JObj([text |-> JStr("x")]) }
  \cup { JArr(a) : a \in SeqsUpTo(PartItems, MaxParts) }

ChatBodies ==
  { JObj([choices |-> JArr(<<JObj([message |-> JObj([content |-> c])])>>)]) :
      c \in Contents }
  \cup { JObj([candidates |-> JArr(<<JObj([content |-> JObj([parts |-> c])])>>)]) :
           c \in Contents }
  \cup { JObj([text |-> c]) : c \in Contents }
  \cup { JObj([message |-> JObj([content |-> c])]) : c \in Contents }
  \cup { JObj([text |-> t, message |-> JObj([content |-> c])]) :
           t \in {JStr("t"), JInt(1)}, c \in Contents }
  \cup { EmptyObject, JStr("x"), JArr(<<>>),
         JObj([choices |-> JArr(<<>>)]), JObj([choices |-> JStr("x")]),
         JObj([choices |-> JArr(<<JStr("x")>>)]),
         JObj([choices |-> JArr(<<JObj([message |-> JStr("x")])>>)]),
         JObj([choices |-> JArr(<<JObj([message |-> EmptyObject])>>)]),
         JObj([choices |-> JArr(<<EmptyObject,
                                  JObj([message |-> JObj([content |-> JStr("x")])])>>)]),
         JObj([candidates |-> JArr(<<>>)]),
         JObj([candidates |-> JArr(<<JObj([content |-> JStr("x")])>>)]),
         JObj([candidates |-> JArr(<<JObj([content |-> EmptyObject])>>)]),
         JObj([message |-> JStr("x")]), JObj([message |-> EmptyObject]) }

ExtractAnswerCalls ==
  { [fn |-> "ExtractAnswer", shape |-> sh, j |-> j] :
      sh \in {"openai", "google", "cohere"}, j \in ChatBodies }

MaxNesting == 2

\* values of the fields of a model list: context sizes, a negative number, an
\* unsigned number no long long holds, a string
MinerLeaves == { JInt(-5), JInt(0), JInt(7), JBig(0), JStr("coder") }

MinerKeys == { "context_length", "max_output_tokens", "Max_Tokens", "id" }

\* JSON documents of at most n levels of objects and arrays around a leaf
RECURSIVE MinerTrees(_)
MinerTrees(n) ==
  IF n = 0 THEN MinerLeaves
  ELSE LET below == MinerTrees(n - 1)
       IN below
          \cup { JObj(k :> t) : k \in MinerKeys, t \in below }
          \cup { JArr(<<t>>) : t \in below }
          \cup { JObj(ks[1] :> a @@ ks[2] :> b) :
                   ks \in { q \in MinerKeys \X MinerKeys : q[1] # q[2] },
                   a \in MinerLeaves, b \in MinerLeaves }
          \cup { JArr(<<a, b>>) : a \in MinerLeaves, b \in MinerLeaves }

ExtractMaxContextCalls ==
  { [fn |-> "ExtractMaxContext", j |-> j] : j \in MinerTrees(MaxNesting) }

ExtractCapabilitiesCalls ==
  { [fn |-> "ExtractCapabilities", model_ids |-> ids, j |-> j] :
      ids \in {<<>>, <<"gpt-4o-vision">>}, j \in MinerTrees(MaxNesting) }

UnitCalls ==
  TopCandidatesCalls \cup ChooseModelCalls \cup ScoreProviderCalls
  \cup FinalizeMetricsCalls \cup AddTraceCalls \cup RateLimitHeadersCalls
  \cup ExtractModelIdsCalls \cup ExtractAnswerCalls
  \cup ExtractMaxContextCalls \cup ExtractCapabilitiesCalls

\* no run of the engine is in progress; one call is about to be made
UnitInit ==
  /\ call \in UnitCalls
  /\ result = NoResult
  /\ keys = <<>>
  /\ server = [list_body |-> EmptyObject, chat_ok |-> TRUE]
  /\ faults = 0
  /\ cancel_requested = FALSE
  /\ pc = "idle"
  /\ idx = 1
  /\ report = [run_logs |-> <<>>, providers |-> <<>>]
  /\ log_lines = <<>>
  /\ p = NoAudit
  /\ discovered = <<>>
  /\ pool = <<>>
  /\ candidates = <<>>
  /\ ci = 0
  /\ sent = <<>>
  /\ received = <<>>
  /\ app = NoApp

Returned(value) ==
  /\ ~result.done
  /\ result' = [done |-> TRUE, value |-> value]
  /\ UNCHANGED <<app, call, keys, server, faults, cancel_requested, pc, idx, report,
                 log_lines, p, discovered, pool, candidates, ci, sent, received>>

CallTopCandidates ==
  /\ call.fn = "TopCandidates"
  /\ Returned(TopCandidates(call.discovered, call.preferred, call.max_count))

CallChooseModel ==
  /\ call.fn = "ChooseModel"
  /\ Returned(ChooseModel(call.discovered, call.preferred))

CallScoreProvider ==
  /\ call.fn = "ScoreProvider"
  /\ Returned(ScoreProvider(call.p))

CallFinalizeMetrics ==
  /\ call.fn = "FinalizeMetrics"
  /\ Returned(FinalizeMetrics(call.p))

CallAddTrace ==
  /\ call.fn = "AddTrace"
  /\ Returned(AddTrace(call.p, call.step, call.r))

CallRateLimitHeaders ==
  /\ call.fn = "RateLimitHeaders"
  /\ Returned(RateLimitHeaders(call.headers))

CallExtractModelIds ==
  /\ call.fn = "ExtractModelIds"
  /\ Returned(ExtractModelIds(call.j))

CallExtractAnswer ==
  /\ call.fn = "ExtractAnswer"
  /\ Returned(ExtractAnswer(call.shape, call.j))

CallExtractMaxContext ==
  /\ call.fn = "ExtractMaxContext"
  /\ Returned(ExtractMaxContext(call.j))

CallExtractCapabilities ==
  /\ call.fn = "ExtractCapabilities"
  /\ Returned(ExtractCapabilities(call.model_ids, call.j))

UnitNext ==
  \/ CallTopCandidates
  \/ CallChooseModel
  \/ CallScoreProvider
  \/ CallFinalizeMetrics
  \/ CallAddTrace
  \/ CallRateLimitHeaders
  \/ CallExtractModelIds
  \/ CallExtractAnswer
  \/ CallExtractMaxContext
  \/ CallExtractCapabilities

UnitSpec == UnitInit /\ [][UnitNext]_vars

(***************************************************************************)
(* The application: main()'s frame loop on the UI thread, and the worker   *)
(* thread that the Run button starts.  The engine's own log_lines is       *)
(* shared.logs here, because the callback main() hands to Run is the only  *)
(* writer the engine has; cancel_requested is main()'s atomic.  The        *)
(* buttons that only write status_text while no audit runs (Apply          *)
(* Workspace, Load Keys, Save Keys) are one action, and so are the two     *)
(* export buttons.                                                         *)
(***************************************************************************)
MaxRuns == 2     \* clicks on Run Full Audit in one behaviour
MaxClicks == 1   \* clicks on the buttons that are not Run or Stop
MaxThrown == 1   \* exceptions thrown inside the worker in one behaviour

EngineVars == <<keys, server, faults, pc, idx, report, p, discovered, pool,
                candidates, ci, sent, received>>

NoReport == [run |-> 0]

\* SharedState as it is constructed, and the locals of main() around it
AppStart ==
  [ ui |-> "loop", wpc |-> "idle", mutex |-> "free", thread |-> "none",
    audit_running |-> FALSE, crashed |-> FALSE,
    runs |-> 0, clicks |-> 0, thrown |-> 0,
    status_text |-> "Ready", summary_text |-> "", has_report |-> FALSE,
    last_report |-> NoReport, last_log_path |-> "", last_json_path |-> "",
    ui_has_report |-> FALSE, run_log_path |-> "" ]

\* one provider with a key, a sign-in step and two models; the transport
\* answers as usual
AppInit ==
  /\ keys = KeyMap({"vercel"})
  /\ server = [list_body |-> BodyData, chat_ok |-> TRUE]
  /\ faults = MaxFaults
  /\ cancel_requested = FALSE
  /\ pc = "idle"
  /\ idx = 1
  /\ report = [providers |-> <<>>, run_logs |-> <<>>]
  /\ log_lines = <<>>
  /\ p = NoAudit
  /\ discovered = <<>>
  /\ pool = <<>>
  /\ candidates = <<>>
  /\ ci = 1
  /\ sent = <<>>
  /\ received = <<>>
  /\ call = NoCall
  /\ result = NoResult
  /\ app = AppStart

Alive == ~app.crashed /\ app.ui # "exited"

\* std::scoped_lock lock(shared.mutex) on the UI thread
UiLockPoints ==
  {"status_lock", "run_lock", "stop_lock", "snap_lock", "export_lock",
   "clear_lock", "view_lock"}

UiBodyOf ==
  [l \in UiLockPoints |->
     CASE l = "status_lock" -> "status_body"
       [] l = "run_lock" -> "run_body"
       [] l = "stop_lock" -> "stop_body"
       [] l = "snap_lock" -> "snap_body"
       [] l = "export_lock" -> "export_body"
       [] l = "clear_lock" -> "clear_body"
       [] l = "view_lock" -> "view_body"]

UiLock ==
  /\ Alive
  /\ app.ui \in UiLockPoints
  /\ app.mutex = "free"
  /\ app' = [app EXCEPT !.mutex = "ui", !.ui = UiBodyOf[app.ui]]
  /\ UNCHANGED <<EngineVars, cancel_requested, log_lines, call, result>>

\* while (!WindowShouldClose()); after the loop the flag is set and the
\* worker is joined
UiLoop ==
  /\ Alive
  /\ app.ui = "loop"
  /\ \/ /\ app' = [app EXCEPT !.ui = "join"]
        /\ UNCHANGED cancel_requested
     \/ /\ cancel_requested' = TRUE
        /\ app' = [app EXCEPT !.ui = "close_join"]
  /\ UNCHANGED <<EngineVars, log_lines, call, result>>

UiCloseJoin ==
  /\ Alive
  /\ app.ui = "close_join"
  /\ app.thread # "running"
  /\ app' = [app EXCEPT !.ui = "exited", !.thread = "none"]
  /\ UNCHANGED <<EngineVars, cancel_requested, log_lines, call, result>>

\* if (!audit_running.load() && worker.joinable()) worker.join();
UiJoin ==
  /\ Alive
  /\ app.ui = "join"
  /\ IF ~app.audit_running /\ app.thread # "none"
       THEN /\ app.thread = "finished"
            /\ app' = [app EXCEPT !.ui = "status_btn", !.thread = "none"]
       ELSE app' = [app EXCEPT !.ui = "status_btn"]
  /\ UNCHANGED <<EngineVars, cancel_requested, log_lines, call, result>>

StatusTexts == {"Workspace ready", "Loaded API keys", "Load failed"}

UiStatusButton ==
  /\ Alive
  /\ app.ui = "status_btn"
  /\ \/ /\ ~app.audit_running
        /\ app.clicks < MaxClicks
        /\ app' = [app EXCEPT !.ui = "status_lock", !.clicks = @ + 1]
     \/ app' = [app EXCEPT !.ui = "run_btn"]
  /\ UNCHANGED <<EngineVars, cancel_requested, log_lines, call, result>>

UiStatusBody ==
  /\ Alive
  /\ app.ui = "status_body"
  /\ \E text \in StatusTexts :
       app' = [app EXCEPT !.status_text = text, !.mutex = "free", !.ui = "run_btn"]
  /\ UNCHANGED <<EngineVars, cancel_requested, log_lines, call, result>>

\* a Run handler that leaves the cancellation flag as it finds it
UiRunButtonKeepsFlag ==
  /\ Alive
  /\ app.ui = "run_btn"
  /\ \/ /\ ~app.audit_running
        /\ app.runs < MaxRuns
        /\ cancel_requested' = cancel_requested
        /\ app' = [app EXCEPT !.audit_running = TRUE, !.runs = @ + 1,
                              !.ui = "run_lock"]
     \/ /\ app' = [app EXCEPT !.ui = "stop_btn"]
        /\ UNCHANGED cancel_requested
  /\ UNCHANGED <<EngineVars, log_lines, call, result>>

\* a Run button that is enabled while an audit runs
UiRunButtonAlwaysEnabled ==
  /\ Alive
  /\ app.ui = "run_btn"
  /\ \/ /\ app.runs < MaxRuns
        /\ cancel_requested' = FALSE
        /\ app' = [app EXCEPT !.audit_running = TRUE, !.runs = @ + 1,
                              !.ui = "run_lock"]
     \/ /\ app' = [app EXCEPT !.ui = "stop_btn"]
        /\ UNCHANGED cancel_requested
  /\ UNCHANGED <<EngineVars, log_lines, call, result>>

\* Run Full Audit: the two stores, then the locked reset of the panels
UiRunButton ==
  /\ Alive
  /\ app.ui = "run_btn"
  /\ \/ /\ ~app.audit_running
        /\ app.runs < MaxRuns
        /\ cancel_requested' = FALSE
        /\ app' = [app EXCEPT !.audit_running = TRUE, !.runs = @ + 1,
                              !.ui = "run_lock"]
     \/ /\ app' = [app EXCEPT !.ui = "stop_btn"]
        /\ UNCHANGED cancel_requested
  /\ UNCHANGED <<EngineVars, log_lines, call, result>>

UiRunBody ==
  /\ Alive
  /\ app.ui = "run_body"
  /\ log_lines' = <<>>
  /\ app' = [app EXCEPT !.summary_text = "", !.status_text = "Audit started...",
                        !.mutex = "free", !.ui = "run_spawn"]
  /\ UNCHANGED <<EngineVars, cancel_requested, call, result>>

\* worker = std::thread(...): assigning over a thread that is still
\* joinable calls std::terminate
UiRunSpawn ==
  /\ Alive
  /\ app.ui = "run_spawn"
  /\ IF app.thread # "none"
       THEN /\ app' = [app EXCEPT !.crashed = TRUE]
            /\ UNCHANGED pc
       ELSE /\ app' = [app EXCEPT !.thread = "running", !.wpc = "run",
                                  !.ui = "stop_btn"]
            /\ pc' = "run_entry"
  /\ UNCHANGED <<keys, server, faults, idx, report, p, discovered, pool,
                 candidates, ci, sent, received, cancel_requested, log_lines,
                 call, result>>

UiStopButton ==
  /\ Alive
  /\ app.ui = "stop_btn"
  /\ \/ /\ app.audit_running
        /\ cancel_requested' = TRUE
        /\ app' = [app EXCEPT !.ui = "stop_lock"]
     \/ /\ app' = [app EXCEPT !.ui = "snap_lock"]
        /\ UNCHANGED cancel_requested
  /\ UNCHANGED <<EngineVars, log_lines, call, result>>

UiStopBody ==
  /\ Alive
  /\ app.ui = "stop_body"
  /\ app' = [app EXCEPT !.status_text = "Cancellation requested...",
                        !.mutex = "free", !.ui = "snap_lock"]
  /\ UNCHANGED <<EngineVars, cancel_requested, log_lines, call, result>>

\* has_report = shared.has_report; report_copy = shared.last_report
UiSnapBody ==
  /\ Alive
  /\ app.ui = "snap_body"
  /\ app' = [app EXCEPT !.ui_has_report = app.has_report, !.mutex = "free",
                        !.ui = "export_btn"]
  /\ UNCHANGED <<EngineVars, cancel_requested, log_lines, call, result>>

UiExportButton ==
  /\ Alive
  /\ app.ui = "export_btn"
  /\ \/ /\ app.ui_has_report
        /\ app.clicks < MaxClicks
        /\ app' = [app EXCEPT !.ui = "export_lock", !.clicks = @ + 1]
     \/ app' = [app EXCEPT !.ui = "clear_btn"]
  /\ UNCHANGED <<EngineVars, cancel_requested, log_lines, call, result>>

UiExportBody ==
  /\ Alive
  /\ app.ui = "export_body"
  /\ \E path \in {"", "report.json"} :
       app' = [app EXCEPT !.last_json_path = path,
                          !.status_text = IF path # "" THEN "JSON report exported"
                                          ELSE "Failed to export JSON report.",
                          !.mutex = "free", !.ui = "clear_btn"]
  /\ UNCHANGED <<EngineVars, cancel_requested, log_lines, call, result>>

UiClearButton ==
  /\ Alive
  /\ app.ui = "clear_btn"
  /\ \/ /\ app.clicks < MaxClicks
        /\ app' = [app EXCEPT !.ui = "clear_lock", !.clicks = @ + 1]
     \/ app' = [app EXCEPT !.ui = "view_lock"]
  /\ UNCHANGED <<EngineVars, cancel_requested, log_lines, call, result>>

UiClearBody ==
  /\ Alive
  /\ app.ui = "clear_body"
  /\ log_lines' = <<>>
  /\ app' = [app EXCEPT !.status_text = "Logs cleared.", !.mutex = "free",
                        !.ui = "view_lock"]
  /\ UNCHANGED <<EngineVars, cancel_requested, call, result>>

\* the copies the frame draws from
UiViewBody ==
  /\ Alive
  /\ app.ui = "view_body"
  /\ app' = [app EXCEPT !.mutex = "free", !.ui = "loop"]
  /\ UNCHANGED <<EngineVars, cancel_requested, log_lines, call, result>>

\* the steps of AuditEngine::Run, taken by the worker thread
EngineStep ==
  \/ RunEntry \/ CheckProvider \/ RunEnd
  \/ AdapterEntry
  \/ SendAuth \/ AuthReturn
  \/ SendList \/ ListReturn
  \/ CheckModel \/ SendCheck \/ ModelCheckReturn
  \/ CheckPrompt \/ SendPrompt \/ PromptReturn

\* the next step of Run calls the log callback, which locks shared.mutex
CallbackNext ==
  \/ pc \in {"run_entry", "run_end", "wait_auth"}
  \/ pc = "adapter_entry" /\ key_of(Cfg.id) # ""
  \/ pc = "check_prompt" /\ ~cancel_requested

\* engine.Run(keys_map, callback, cancel_requested) in progress; the callback
\* locks, pushes the line and unlocks within the step that logs
WorkerRun ==
  /\ Alive
  /\ app.wpc = "run"
  /\ CallbackNext => app.mutex = "free"
  /\ EngineStep

\* the engine and the report, locals of the try block, are destroyed
LocalsGone ==
  /\ pc' = "idle"
  /\ idx' = 1
  /\ report' = [providers |-> <<>>, run_logs |-> <<>>]
  /\ p' = NoAudit
  /\ discovered' = <<>>
  /\ pool' = <<>>
  /\ candidates' = <<>>
  /\ ci' = 1
  /\ sent' = <<>>
  /\ received' = <<>>

\* Run or WriteRunLog throws, and the stack is unwound to the handlers
WorkerThrows ==
  /\ Alive
  /\ \/ app.wpc = "run" /\ pc # "done"
     \/ app.wpc = "write_log"
  /\ app.thrown < MaxThrown
  /\ app' = [app EXCEPT !.wpc = "catch_lock", !.thrown = @ + 1]
  /\ LocalsGone
  /\ UNCHANGED <<keys, server, faults, cancel_requested, log_lines, call, result>>

WorkerRunReturns ==
  /\ Alive
  /\ app.wpc = "run"
  /\ pc = "done"
  /\ app' = [app EXCEPT !.wpc = "write_log"]
  /\ UNCHANGED <<EngineVars, cancel_requested, log_lines, call, result>>

\* WriteRunLog returns the path, or {} when the file cannot be opened
WorkerWriteRunLog ==
  /\ Alive
  /\ app.wpc = "write_log"
  /\ \E path \in {"", "run.log"} :
       app' = [app EXCEPT !.run_log_path = path, !.wpc = "publish_lock"]
  /\ UNCHANGED <<EngineVars, cancel_requested, log_lines, call, result>>

\* std::scoped_lock lock(shared.mutex) on the worker thread
WorkerLock ==
  /\ Alive
  /\ app.wpc \in {"publish_lock", "catch_lock"}
  /\ app.mutex = "free"
  /\ app' = [app EXCEPT !.mutex = "worker",
                        !.wpc = IF app.wpc = "publish_lock" THEN "publish_report"
                                ELSE "catch_body"]
  /\ UNCHANGED <<EngineVars, cancel_requested, log_lines, call, result>>

\* the summary text BuildSummaryText makes of a report
BuildSummaryText(r) == <<"summary", r>>

\* the worker's report as SharedState keeps it: the run that made it (its
\* generated_at_utc) and the last line of its run_logs
Published == [run |-> app.runs, last_line |-> report.run_logs[Len(report.run_logs)]]

StatusWithLog(text, path) ==
  IF path # "" THEN text \o " Run log: " \o path ELSE text

\* the report published in a locked block of its own
WorkerPublishReportAlone ==
  /\ Alive
  /\ app.wpc = "publish_report"
  /\ app' = [app EXCEPT !.last_report = Published, !.has_report = TRUE,
                        !.mutex = "free", !.wpc = "publish_summary"]
  /\ UNCHANGED <<EngineVars, cancel_requested, log_lines, call, result>>

\* shared.last_report = report; shared.has_report = true;
WorkerPublishReport ==
  /\ Alive
  /\ app.wpc = "publish_report"
  /\ app' = [app EXCEPT !.last_report = Published,
                        !.has_report = TRUE, !.wpc = "publish_summary"]
  /\ UNCHANGED <<EngineVars, cancel_requested, log_lines, call, result>>

\* shared.summary_text = BuildSummaryText(report);
WorkerPublishSummary ==
  /\ Alive
  /\ app.wpc = "publish_summary"
  /\ app' = [app EXCEPT !.summary_text = BuildSummaryText(Published),
                        !.wpc = "publish_status"]
  /\ UNCHANGED <<EngineVars, cancel_requested, log_lines, call, result>>

\* last_log_path and status_text, and the end of the locked block
WorkerPublishStatus ==
  /\ Alive
  /\ app.wpc = "publish_status"
  /\ app' = [app EXCEPT !.last_log_path = app.run_log_path,
                        !.status_text =
                            StatusWithLog(IF cancel_requested THEN "Audit canceled."
                                          ELSE "Audit completed.", app.run_log_path),
                        !.mutex = "free", !.wpc = "reset"]
  /\ UNCHANGED <<EngineVars, cancel_requested, log_lines, call, result>>

FailedStatuses == {"Audit failed: what()", "Audit failed: unknown error."}

\* handlers that also withdraw the report of the run before
WorkerCatchDropsReport ==
  /\ Alive
  /\ app.wpc = "catch_body"
  /\ \E what \in FailedStatuses :
       app' = [app EXCEPT !.status_text = what, !.has_report = FALSE,
                          !.last_report = NoReport,
                          !.mutex = "free", !.wpc = "reset"]
  /\ UNCHANGED <<EngineVars, cancel_requested, log_lines, call, result>>

\* handlers that return from the thread function
WorkerCatchReturns ==
  /\ Alive
  /\ app.wpc = "catch_body"
  /\ \E what \in FailedStatuses :
       app' = [app EXCEPT !.status_text = what, !.mutex = "free", !.wpc = "return"]
  /\ UNCHANGED <<EngineVars, cancel_requested, log_lines, call, result>>

\* catch (const std::exception&) and catch (...)
WorkerCatch ==
  /\ Alive
  /\ app.wpc = "catch_body"
  /\ \E what \in FailedStatuses :
       app' = [app EXCEPT !.status_text = what, !.mutex = "free", !.wpc = "reset"]
  /\ UNCHANGED <<EngineVars, cancel_requested, log_lines, call, result>>

\* the try block is left, and audit_running.store(false);
WorkerReset ==
  /\ Alive
  /\ app.wpc = "reset"
  /\ app' = [app EXCEPT !.audit_running = FALSE, !.wpc = "return",
                        !.run_log_path = ""]
  /\ LocalsGone
  /\ UNCHANGED <<keys, server, faults, cancel_requested, log_lines, call, result>>

\* the thread function returns; the std::thread stays joinable
WorkerReturn ==
  /\ Alive
  /\ app.wpc = "return"
  /\ app' = [app EXCEPT !.thread = "finished", !.wpc = "idle"]
  /\ UNCHANGED <<EngineVars, cancel_requested, log_lines, call, result>>

AppNext ==
  \/ UiLoop \/ UiCloseJoin \/ UiJoin \/ UiLock
  \/ UiStatusButton \/ UiStatusBody
  \/ UiRunButton \/ UiRunBody \/ UiRunSpawn
  \/ UiStopButton \/ UiStopBody
  \/ UiSnapBody
  \/ UiExportButton \/ UiExportBody
  \/ UiClearButton \/ UiClearBody
  \/ UiViewBody
  \/ WorkerRun \/ WorkerThrows \/ WorkerRunReturns \/ WorkerWriteRunLog
  \/ WorkerLock
  \/ WorkerPublishReport \/ WorkerPublishSummary \/ WorkerPublishStatus
  \/ WorkerCatch \/ WorkerReset \/ WorkerReturn

AppSpec == AppInit /\ [][AppNext]_vars

\* a step of the worker thread other than a throw
WorkerStep ==
  \/ WorkerRun \/ WorkerRunReturns \/ WorkerWriteRunLog
  \/ WorkerLock
  \/ WorkerPublishReport \/ WorkerPublishSummary \/ WorkerPublishStatus
  \/ WorkerCatch \/ WorkerReset \/ WorkerReturn

\* a step of the UI thread
UiStep ==
  \/ UiLoop \/ UiCloseJoin \/ UiJoin \/ UiLock
  \/ UiStatusButton \/ UiStatusBody
  \/ UiRunButton \/ UiRunBody \/ UiRunSpawn
  \/ UiStopButton \/ UiStopBody
  \/ UiSnapBody
  \/ UiExportButton \/ UiExportBody
  \/ UiClearButton \/ UiClearBody
  \/ UiViewBody

\* Run is inside Request for the list of models or for a prompt
AwaitsSender ==
  /\ Alive
  /\ app.wpc = "run"
  /\ pc \in {"wait_list", "wait_prompt"}

\* both threads are scheduled, and each gets the mutex that the other takes
\* and releases again and again (strong fairness); every Request returns
AppLiveSpec ==
  /\ AppInit /\ [][AppNext]_vars
  /\ SF_vars(~AwaitsSender /\ WorkerStep)
  /\ []<>~AwaitsSender
  /\ SF_vars(UiStep)

(***************************************************************************)
(* Properties                                                              *)
(***************************************************************************)
InFlight == pc \in {"wait_auth", "wait_list", "wait_check", "wait_prompt"}

\* the requests of one provider handed to Request so far
SentBy(id) == SelectSeq(sent, LAMBDA e : e.provider = id)
SentStep(id, step) == SelectSeq(sent, LAMBDA e : e.provider = id /\ e.step = step)

Last(q) == q[Len(q)]

CancelNote == " Audit canceled by user."

\* C1: in every state, every ProviderAudit (finished or under construction)
\* has total_requests = successful_requests + failed_requests = the number
\* of its request traces = the number of Sender calls that returned for it.
C1_TraceCounters ==
  /\ \A i \in 1..Len(report.providers) :
       LET a == report.providers[i]
       IN /\ a.total_requests = a.successful_requests + a.failed_requests
          /\ a.total_requests = Len(a.request_traces)
          /\ a.total_requests = Len(SentBy(a.provider_id))
  /\ p # NoAudit =>
       /\ p.total_requests = p.successful_requests + p.failed_requests
       /\ p.total_requests = Len(p.request_traces)
       /\ p.total_requests + (IF InFlight THEN 1 ELSE 0) = Len(SentBy(p.provider_id))

C1_Witness ==
  \E i \in 1..Len(report.providers) :
    /\ report.providers[i].successful_requests >= 2
    /\ report.providers[i].failed_requests >= 1
    /\ report.providers[i].total_requests >= 5

\* C2: when Run's first read finds the cancellation flag set, Run returns
\* at once with no provider in the report, the early-cancellation line as
\* its only log line, and no request sent.
C2_CanceledBeforeStart ==
  [][(pc = "run_entry" /\ cancel_requested /\ pc' # pc) =>
       /\ pc' = "done"
       /\ report'.providers = <<>>
       /\ report'.run_logs = <<"Audit canceled before start.">>
       /\ sent' = <<>>]_vars

C2_Witness ==
  /\ pc = "done"
  /\ report.providers = <<>>
  /\ "Audit canceled before start." \in Range(report.run_logs)
  /\ sent = <<>>

\* C3: report.providers is always a prefix of the fixed provider sequence,
\* an adapter is only entered after a read that found the flag unset, and
\* the flag, once set, stays set for the rest of the run.
C3_ProvidersPrefix ==
  /\ [](/\ Len(report.providers) <= NumProviders
        /\ \A i \in 1..Len(report.providers) :
             report.providers[i].provider_id = ProviderIds[i])
  /\ [][(pc' = "adapter_entry" /\ pc # "adapter_entry") => ~cancel_requested]_vars
  /\ [][cancel_requested => cancel_requested']_vars

C3_Witness ==
  /\ pc = "done"
  /\ cancel_requested
  /\ Len(report.providers) = 4
  /\ report.providers[4].total_requests > 0

\* C4: a run that ends with the flag never set reports all 11 providers in
\* the fixed order, whatever the requests returned.
C4_AllProvidersWhenNotCanceled ==
  (pc = "done" /\ ~cancel_requested) =>
    /\ Len(report.providers) = NumProviders
    /\ \A i \in 1..NumProviders : report.providers[i].provider_id = ProviderIds[i]

C4_Witness ==
  /\ pc = "done"
  /\ ~cancel_requested
  /\ Len(report.providers) = NumProviders
  /\ report.providers[1].failed_requests = report.providers[1].total_requests
  /\ report.providers[1].total_requests >= 4
  /\ report.providers[2].total_requests >= 4

HasCancelNote(a) ==
  /\ Len(a.notes) >= Len(CancelNote)
  /\ SubSeq(a.notes, Len(a.notes) - Len(CancelNote) + 1, Len(a.notes)) = CancelNote

RECURSIVE SumFrom(_, _)
SumFrom(q, i) == IF i > Len(q) THEN 0 ELSE q[i] + SumFrom(q, i + 1)

\* the latencies >= 0 among an audit's traces
GoodLatencies(a) ==
  LET kept == SelectSeq(a.request_traces, LAMBDA t : t.latency_ms >= 0)
  IN [i \in 1..Len(kept) |-> kept[i].latency_ms]

\* avg_latency_ms is the truncated mean of the latencies >= 0, or still -1
MetricsFinal(a) ==
  LET lats == GoodLatencies(a)
  IN IF Len(lats) = 0 THEN a.avg_latency_ms = -1
     ELSE /\ a.avg_latency_ms * Len(lats) <= SumFrom(lats, 1)
          /\ SumFrom(lats, 1) < (a.avg_latency_ms + 1) * Len(lats)

ChatSteps == {"model_check", "prompt_test"}
Checkpoints == {"check_model", "check_prompt"}
PromptPhase == {"check_prompt", "send_prompt", "wait_prompt"}
ModelPhase == {"check_model", "send_check", "wait_check"}

\* a model-check or prompt-test request is handed to Request in this step
ChatDispatch == Len(sent') = Len(sent) + 1 /\ Last(sent').step \in ChatSteps

\* C5 (the mechanism): every model-check and prompt-test request follows a
\* checkpoint whose read found the flag unset; a checkpoint whose read finds
\* it set sends nothing and returns the audit with the cancellation note
\* appended and the metrics finalized, which Run appends to the report.
C5_Mechanism ==
  /\ [][ChatDispatch => pc \in {"send_check", "send_prompt"}]_vars
  /\ [][(pc' \in {"send_check", "send_prompt"} /\ pc' # pc) =>
          (pc \in Checkpoints /\ ~cancel_requested)]_vars
  /\ [][(pc \in Checkpoints /\ cancel_requested /\ pc' # pc) =>
          /\ sent' = sent
          /\ Len(report'.providers) = Len(report.providers) + 1
          /\ LET a == Last(report'.providers)
             IN /\ a = [p EXCEPT !.notes = p.notes \o CancelNote,
                                 !.avg_latency_ms = a.avg_latency_ms]
                /\ MetricsFinal(a)]_vars

\* C5 as stated: the mechanism, and no model-check or prompt-test request
\* is handed to Request once the flag is set.
C5_NoChatRequestAfterFlag ==
  /\ C5_Mechanism
  /\ [][ChatDispatch => ~cancel_requested]_vars

\* C5 as amended: the mechanism, and no request at all is sent once a
\* checkpoint has found the flag set (an audit carries the cancellation note).
C5_NoRequestAfterCheckpointSawFlag ==
  /\ C5_Mechanism
  /\ [][(\E i \in 1..Len(report.providers) : HasCancelNote(report.providers[i]))
          => sent' = sent]_vars

C5_Witness ==
  \E i \in 1..Len(report.providers) :
    /\ HasCancelNote(report.providers[i])
    /\ Len(report.providers[i].model_checks) >= 2
    /\ Len(report.providers[i].prompt_tests) >= 1
    /\ report.providers[i].avg_latency_ms >= 1

PromptModels(id) ==
  LET q == SentStep(id, "prompt_test") IN [i \in 1..Len(q) |-> q[i].payload.model]

\* C6: a finished audit without a note (a completed run) has exactly the
\* prompt tests reasoning, coding, axui in that order, all three requests
\* carrying its model_used; a skipped or NoModels audit has none and a
\* canceled one fewer than three.
C6_ThreePromptTests ==
  \A i \in 1..Len(report.providers) :
    LET a == report.providers[i]
        names == [k \in 1..Len(a.prompt_tests) |-> a.prompt_tests[k].name]
    IN IF a.notes = ""
       THEN /\ names = <<"reasoning", "coding", "axui">>
            /\ PromptModels(a.provider_id) = <<a.model_used, a.model_used, a.model_used>>
       ELSE /\ Len(a.prompt_tests) < 3
            /\ ~HasCancelNote(a) => a.prompt_tests = <<>>

C6_Witness ==
  /\ pc = "done"
  /\ Len(report.providers) >= 2
  /\ report.providers[1].notes = ""
  /\ Len(report.providers[1].prompt_tests) = 3
  /\ report.providers[1].model_used # ""
  /\ HasCancelNote(report.providers[2])
  /\ Len(report.providers[2].prompt_tests) = 2

\* the list the adapter ranks: every discovered model, and for Cohere the
\* discovered models whose lower-cased name holds neither embed nor rerank
RankedFrom(shape, found) ==
  IF shape = "cohere"
  THEN SelectSeq(found, LAMBDA m : ~Contains(ToLower(m), "embed")
                                   /\ ~Contains(ToLower(m), "rerank"))
  ELSE found

\* C7 as stated: once the model checks are over, model_used is the first
\* working model, or else ChooseModel over all discovered models.
C7_ModelUsedFromDiscovered ==
  pc \in PromptPhase =>
    p.model_used = IF Len(p.working_models) > 0 THEN p.working_models[1]
                   ELSE ChooseModel(discovered, Cfg.preferred)

\* C7 as amended: ... or else ChooseModel over the list the candidates were
\* ranked from (for Cohere the chat-capable models only).
C7_ModelUsedFromRanked ==
  pc \in PromptPhase =>
    p.model_used = IF Len(p.working_models) > 0 THEN p.working_models[1]
                   ELSE ChooseModel(RankedFrom(Cfg.shape, discovered), Cfg.preferred)

C7_Witness ==
  /\ pc \in PromptPhase
  /\ Len(p.working_models) >= 2
  /\ p.model_used = p.working_models[1]
  /\ p.model_used # p.model_checks[1].model

C7_WitnessFallback ==
  /\ pc \in PromptPhase
  /\ p.working_models = <<>>
  /\ p.model_used # ""
  /\ p.model_used # discovered[1]

NoKey(i) == ProviderIds[i] \notin DOMAIN keys \/ keys[ProviderIds[i]] = ""

\* C8: a provider whose key is empty or missing is reported as skipped:
\* no key, the note, nothing sent, nothing recorded, counters 0, average -1;
\* entering its adapter appends that audit at once.
C8_SkippedWithoutKey ==
  /\ [](\A i \in 1..Len(report.providers) :
          NoKey(i) =>
            LET a == report.providers[i]
            IN /\ ~a.key_supplied
               /\ a.notes = "No API key supplied."
               /\ SentBy(a.provider_id) = <<>>
               /\ a.request_traces = <<>>
               /\ a.model_checks = <<>>
               /\ a.prompt_tests = <<>>
               /\ a.total_requests = 0
               /\ a.successful_requests = 0
               /\ a.failed_requests = 0
               /\ a.avg_latency_ms = -1)
  /\ [][(pc = "adapter_entry" /\ NoKey(idx) /\ pc' # pc) =>
          /\ Len(report'.providers) = Len(report.providers) + 1
          /\ Last(report'.providers).provider_id = ProviderIds[idx]
          /\ sent' = sent]_vars

C8_Witness ==
  /\ pc = "done"
  /\ Len(report.providers) = NumProviders
  /\ report.providers[1].total_requests > 0
  /\ "mistral" \in DOMAIN keys
  /\ report.providers[3].notes = "No API key supplied."
  /\ "groq" \notin DOMAIN keys
  /\ report.providers[5].notes = "No API key supplied."

NoModelsNotes ==
  { "No models discovered or access denied.",
    "No generateContent models discovered.",
    "No chat-capable models inferred from model names.",
    "No models discovered from AI Gateway.",
    "No models discovered for this token." }

\* C9: an adapter whose list step discovers no model stops there: no
\* model-check or prompt-test request, model_used empty, scores 0, a note,
\* and the average latency taken over the list (and auth) traces.
C9_NoModelsTerminal ==
  /\ \A i \in 1..Len(report.providers) :
       LET a == report.providers[i]
       IN (a.key_supplied /\ a.sample_models = <<>>) =>
            /\ SentStep(a.provider_id, "model_check") = <<>>
            /\ SentStep(a.provider_id, "prompt_test") = <<>>
            /\ a.model_checks = <<>>
            /\ a.prompt_tests = <<>>
            /\ a.model_used = ""
            /\ a.score_reasoning = 0 /\ a.score_coding = 0
            /\ a.score_axui = 0 /\ a.score_total = 0
            /\ a.notes \in NoModelsNotes
            /\ \A k \in 1..Len(a.request_traces) :
                 a.request_traces[k].step \in {"auth_user", "list_models"}
            /\ Last(a.request_traces).step = "list_models"
            /\ MetricsFinal(a)
  /\ pc \in ModelPhase \cup PromptPhase => p.sample_models # <<>>

C9_Witness ==
  \E i \in 1..Len(report.providers) :
    /\ report.providers[i].key_supplied
    /\ report.providers[i].sample_models = <<>>
    /\ report.providers[i].models_status = 200
    /\ report.providers[i].total_requests = 2
    /\ report.providers[i].avg_latency_ms = 1

CheckedModels(a) == [k \in 1..Len(a.model_checks) |-> a.model_checks[k].model]
ProbedModels(id) ==
  LET q == SentStep(id, "model_check") IN [i \in 1..Len(q) |-> q[i].payload.model]
Distinct(q) == \A i, k \in 1..Len(q) : i # k => q[i] # q[k]

\* what C10 asks of an audit whose model checks ran to the end, given the
\* number n of models to choose from
ProbedMinOf(a, n) ==
  /\ Len(a.model_checks) = Min(8, n)
  /\ Distinct(CheckedModels(a))
  /\ ProbedModels(a.provider_id) = CheckedModels(a)

\* C10 as stated: with a non-empty discovery and no cancellation, the
\* adapter probes min(8, number of discovered models) distinct candidates,
\* each once, one ModelCheck per probe in the same order.
C10_ProbesMinOfDiscovered ==
  /\ pc \in PromptPhase => ProbedMinOf(p, Len(discovered))
  /\ \A i \in 1..Len(report.providers) :
       LET a == report.providers[i]
       IN (a.sample_models # <<>> /\ ~HasCancelNote(a)) =>
            ProbedMinOf(a, Len(a.sample_models))

\* C10 as amended: ... min(8, number of models ranked), which for Cohere
\* counts the chat-capable models only (none left: NoModels, no probe).
C10_ProbesMinOfRanked ==
  /\ pc \in PromptPhase =>
       /\ ProbedMinOf(p, Len(RankedFrom(Cfg.shape, discovered)))
       /\ Range(CheckedModels(p)) \subseteq Range(RankedFrom(Cfg.shape, discovered))
  /\ \A i \in 1..Len(report.providers) :
       LET a == report.providers[i]
       IN (a.sample_models # <<>> /\ ~HasCancelNote(a)) =>
            ProbedMinOf(a, Len(RankedFrom(ProviderTable[i].shape, a.sample_models)))

C10_Witness ==
  /\ pc = "done"
  /\ ~cancel_requested
  /\ Len(report.providers) = NumProviders
  /\ Len(report.providers[6].sample_models) = 10
  /\ Len(report.providers[6].model_checks) = 8
  /\ Len(report.providers[6].prompt_tests) = 3

\* the responses Request returned to the requests of provider id for step
ReceivedStep(id, step) ==
  LET I == SelectSeq([i \in 1..Len(received) |-> i],
                     LAMBDA i : sent[i].provider = id /\ sent[i].step = step)
  IN [k \in 1..Len(I) |-> received[I[k]]]

ShapeOf(id) == ProviderTable[CHOOSE i \in 1..NumProviders : ProviderIds[i] = id].shape

\* every ProviderAudit of the state: the reported ones and the one in the making
Audits == Range(report.providers) \cup (IF p = NoAudit THEN {} ELSE {p})

WorkingChecks(a) == SelectSeq(a.model_checks, LAMBDA mc : mc.working)
FailingChecks(a) == SelectSeq(a.model_checks, LAMBDA mc : ~mc.working)

\* C11: a ModelCheck is working iff its response has a status in [200,300)
\* and a non-empty extracted answer; working_models and failing_models hold
\* the models of the working and of the other checks, so they are disjoint
\* and together as long as model_checks.
C11_WorkingIffAnswered ==
  \A a \in Audits :
    LET rs == ReceivedStep(a.provider_id, "model_check")
    IN /\ Len(a.model_checks) = Len(rs)
       /\ \A k \in 1..Len(a.model_checks) :
            /\ a.model_checks[k].status = rs[k].status
            /\ a.model_checks[k].working <=>
                 /\ rs[k].status >= 200
                 /\ rs[k].status < 300
                 /\ ExtractAnswer(ShapeOf(a.provider_id), ParseJson(rs[k].body)) # ""
       /\ a.working_models = CheckedModels([model_checks |-> WorkingChecks(a)])
       /\ a.failing_models = CheckedModels([model_checks |-> FailingChecks(a)])
       /\ Range(a.working_models) \cap Range(a.failing_models) = {}
       /\ Len(a.working_models) + Len(a.failing_models) = Len(a.model_checks)

C11_Witness ==
  /\ p # NoAudit
  /\ Len(p.working_models) >= 1
  /\ Len(p.failing_models) >= 1
  /\ \E k \in 1..Len(p.model_checks) :
       p.model_checks[k].status = 200 /\ ~p.model_checks[k].working

\* the call of fn has returned
Called(fn) == call.fn = fn /\ result.done

RECURSIVE RefPass1(_, _, _, _)
RefPass1(d, pr, j, out) ==
  IF j > Len(pr) THEN out
  ELSE LET hits == {i \in 1..Len(d) : /\ Matches(ToLower(d[i]), ToLower(pr[j]))
                                      /\ d[i] \notin Range(out)}
       IN RefPass1(d, pr, j + 1,
                   IF hits = {} THEN out
                   ELSE Append(out, d[CHOOSE i \in hits : \A k \in hits : i <= k]))

\* second pass: the discovered ids not yet taken, in their order
RECURSIVE RefPass2(_, _, _)
RefPass2(d, i, out) ==
  IF i > Len(d) THEN out
  ELSE RefPass2(d, i + 1, IF d[i] \in Range(out) THEN out ELSE Append(out, d[i]))

RefTopCandidates(d, pr, n) ==
  LET all == RefPass2(d, 1, RefPass1(d, pr, 1, <<>>))
  IN SubSeq(all, 1, Min(n, Len(all)))

\* C13: TopCandidates returns what the reference two-pass procedure returns
\* (stated for max_count >= 1; max_count = 0 is the case of C12).
C13_TopCandidatesIsReference ==
  (Called("TopCandidates") /\ call.max_count >= 1) =>
    result.value = RefTopCandidates(call.discovered, call.preferred, call.max_count)

\* what C14 says ChooseModel returns for a non-empty discovered list
ChosenByPreference(d, pr, v) ==
  LET hits(j) == {i \in 1..Len(d) : Matches(ToLower(d[i]), ToLower(pr[j]))}
      J == {j \in 1..Len(pr) : hits(j) # {}}
  IN /\ v \in Range(d)
     /\ IF J = {} THEN v = d[1]
        ELSE LET j0 == CHOOSE j \in J : \A k \in J : j <= k
             IN v = d[CHOOSE i \in hits(j0) : \A k \in hits(j0) : i <= k]

\* C14 as stated: the result is empty iff discovered is empty; otherwise it
\* is the first match of the earliest preferred name that matches, or
\* discovered[0], and always an element of discovered.
C14_ChooseModelEmptyIffNone ==
  Called("ChooseModel") =>
    /\ result.value = "" <=> call.discovered = <<>>
    /\ call.discovered # <<>> =>
         ChosenByPreference(call.discovered, call.preferred, result.value)

\* C14 as amended: the result is empty if discovered is empty; otherwise ...
\* an element of discovered (empty only when that element is the empty id).
C14_ChooseModelByPreference ==
  Called("ChooseModel") =>
    /\ call.discovered = <<>> => result.value = ""
    /\ call.discovered # <<>> =>
         ChosenByPreference(call.discovered, call.preferred, result.value)

C14_Witness ==
  /\ Called("ChooseModel")
  /\ call.discovered = <<"A", "AB", "B">>
  /\ call.preferred = <<"z", "B">>
  /\ result.value = "AB"

\* the answer of the first prompt test of that name, lower-cased
LowerAnswer(a, name) ==
  LET I == {i \in 1..Len(a.prompt_tests) : a.prompt_tests[i].name = name}
  IN IF I = {} THEN ""
     ELSE ToLower(a.prompt_tests[CHOOSE i \in I : \A k \in I : i <= k].answer)

\* the rubric, point by point
ReasoningPoint(x) ==
  IF Contains(x, "5 minute") \/ x = "5" \/ Contains(x, "five minutes") THEN 1 ELSE 0
CodingPoint(x) == IF Contains(x, "[::-1]") \/ Contains(x, "reversed(") THEN 1 ELSE 0
AxuiPoints(x) ==
  Cardinality({w \in {"close_popup", "btn_continue"} : Contains(x, w)})

Graded(a) ==
  /\ a.score_reasoning = ReasoningPoint(LowerAnswer(a, "reasoning"))
  /\ a.score_coding = CodingPoint(LowerAnswer(a, "coding"))
  /\ a.score_axui = AxuiPoints(LowerAnswer(a, "axui"))
  /\ a.score_total = a.score_reasoning + a.score_coding + a.score_axui

Ungraded(a) ==
  /\ a.score_reasoning = 0 /\ a.score_coding = 0
  /\ a.score_axui = 0 /\ a.score_total = 0

\* C15: ScoreProvider sets the four scores by the rubric on the lower-cased
\* answers (reasoning 0..1, coding 0..1, axui 0..2, total their sum, 0..4)
\* and changes nothing else.
C15_ScoreRubric ==
  Called("ScoreProvider") =>
    LET v == result.value
    IN /\ Graded(v)
       /\ v.score_total \in 0..4
       /\ v = [call.p EXCEPT !.score_reasoning = v.score_reasoning,
                             !.score_coding = v.score_coding,
                             !.score_axui = v.score_axui,
                             !.score_total = v.score_total]
       /\ call.p.prompt_tests[1].answer = "5" => v.score_reasoning = 1
       /\ call.p.prompt_tests[1].answer = "55" => v.score_reasoning = 0
       /\ call.p.prompt_tests[2].answer = "reversed" => v.score_coding = 0
       /\ call.p.prompt_tests[3].answer = "Click CLOSE_POPUP" => v.score_axui = 1

C15_Witness ==
  /\ Called("ScoreProvider")
  /\ call.p.prompt_tests[1].answer = "About Five Minutes."
  /\ call.p.prompt_tests[2].answer = "return ''.join(Reversed(s))"
  /\ result.value.score_axui = 2
  /\ result.value.score_total = 4

\* C16: an audit carries scores only once it is reported as completed, with
\* its 3 prompt tests; the audit in the making and the skipped, NoModels and
\* canceled ones have all four scores 0 whatever answers they hold; a
\* reported audit is never changed afterwards.
C16_ScoredOnceAtTheEnd ==
  /\ [](\A a \in Audits :
          IF a \in Range(report.providers) /\ a.key_supplied /\ a.notes = ""
          THEN Len(a.prompt_tests) = 3 /\ Graded(a)
          ELSE Ungraded(a))
  /\ [][SubSeq(report'.providers, 1, Len(report.providers)) = report.providers]_vars
  /\ [][(p # NoAudit /\ p' # NoAudit) => Ungraded(p')]_vars

C16_Witness ==
  /\ \E a \in Range(report.providers) :
       /\ HasCancelNote(a)
       /\ Len(a.prompt_tests) = 2
       /\ ReasoningPoint(LowerAnswer(a, "reasoning")) = 1
       /\ CodingPoint(LowerAnswer(a, "coding")) = 1
       /\ a.score_total = 0
  /\ \E a \in Range(report.providers) : a.score_total = 3

\* C17: AddTrace appends one RequestTrace built from the response, leaves
\* the earlier traces as they were, adds one to total_requests and one to
\* successful_requests (status in [200,300) and no transport error) or else
\* to failed_requests, and changes nothing else.
C17_AddTraceCounts ==
  Called("AddTrace") =>
    LET q == call.p
        r == call.r
        v == result.value
        ok == r.status >= 200 /\ r.status < 300 /\ r.error = ""
    IN /\ Len(v.request_traces) = Len(q.request_traces) + 1
       /\ SubSeq(v.request_traces, 1, Len(q.request_traces)) = q.request_traces
       /\ Last(v.request_traces) =
            [step |-> call.step, status |-> r.status, latency_ms |-> r.latency_ms,
             error |-> r.error]
       /\ v.total_requests = q.total_requests + 1
       /\ v.successful_requests = q.successful_requests + (IF ok THEN 1 ELSE 0)
       /\ v.failed_requests = q.failed_requests + (IF ok THEN 0 ELSE 1)
       /\ v = [q EXCEPT !.request_traces = v.request_traces,
                        !.total_requests = v.total_requests,
                        !.successful_requests = v.successful_requests,
                        !.failed_requests = v.failed_requests]

C17_Witness ==
  /\ Called("AddTrace")
  /\ call.r.status = 204
  /\ call.r.error # ""
  /\ Len(call.p.request_traces) = 1
  /\ result.value.failed_requests = call.p.failed_requests + 1
  /\ result.value.successful_requests = 1

LatenciesOf(a) == [i \in 1..Len(a.request_traces) |-> a.request_traces[i].latency_ms]

\* C18: FinalizeMetrics sets avg_latency_ms to the truncated mean of the
\* latencies >= 0 and leaves it -1 when there is none: [10,20,30] gives 20,
\* [] leaves -1; nothing else changes.
C18_TruncatedMean ==
  Called("FinalizeMetrics") =>
    LET q == call.p
        v == result.value
    IN /\ MetricsFinal(v)
       /\ v = [q EXCEPT !.avg_latency_ms = v.avg_latency_ms]
       /\ LatenciesOf(q) = <<10, 20, 30>> => v.avg_latency_ms = 20
       /\ LatenciesOf(q) = <<>> => v.avg_latency_ms = -1
       /\ LatenciesOf(q) = <<10, 25>> => v.avg_latency_ms = 17
       /\ LatenciesOf(q) = <<-1, 30>> => v.avg_latency_ms = 30
       /\ LatenciesOf(q) = <<-1, -1>> => v.avg_latency_ms = -1

C18_Witness ==
  /\ Called("FinalizeMetrics")
  /\ LatenciesOf(call.p) = <<-1, 25, 10>>
  /\ result.value.avg_latency_ms = 17

\* the entries of headers whose key, passed through f, holds a keyword
KeptEntries(headers, value, f(_)) ==
  /\ DOMAIN value =
       {k \in DOMAIN headers :
          \E w \in {"rate", "limit", "quota", "retry"} : Contains(f(k), w)}
  /\ \A k \in DOMAIN value : value[k] = headers[k]

AsWritten(k) == k

C19_WitnessExample ==
  /\ Called("RateLimitHeaders")
  /\ DOMAIN call.headers = {"x-ratelimit-remaining", "content-type"}
  /\ call.headers["content-type"] = "json"
  /\ DOMAIN result.value = {"x-ratelimit-remaining"}
  /\ result.value["x-ratelimit-remaining"] = "10"

\* the ids an element of a model array stands for
Contributed(item) ==
  IF item.t = "string" THEN {item.s}
  ELSE IF item.t # "object" THEN {}
  ELSE IF "id" \in DOMAIN item.o /\ item.o["id"].t = "string" THEN {item.o["id"].s}
  ELSE IF "name" \in DOMAIN item.o /\ item.o["name"].t = "string"
       THEN {item.o["name"].s}
  ELSE {}

ArrayIds(j) ==
  IF j.t = "array" THEN UNION {Contributed(j.a[i]) : i \in 1..Len(j.a)} ELSE {}

FieldIds(j, k) == IF k \in DOMAIN j.o THEN ArrayIds(j.o[k]) ELSE {}

\* C20: ExtractModelIds returns, without a duplicate, exactly the ids the
\* elements of the top-level array, or of the data and models arrays of a
\* top-level object, stand for; any other payload gives the empty sequence.
C20_ModelIdsExactAndDistinct ==
  Called("ExtractModelIds") =>
    /\ Distinct(result.value)
    /\ Range(result.value) =
         IF call.j.t = "array" THEN ArrayIds(call.j)
         ELSE IF call.j.t = "object"
              THEN FieldIds(call.j, "data") \cup FieldIds(call.j, "models")
              ELSE {}

C20_Witness ==
  /\ Called("ExtractModelIds")
  /\ call.j = JObj([data |-> JArr(<<JObj([id |-> JInt(7), name |-> JStr("m3")])>>),
                    models |-> JArr(<<JStr("m1")>>)])
  /\ result.value = <<"m1", "m3">>

C20_WitnessRepeated ==
  /\ Called("ExtractModelIds")
  /\ call.j = JArr(<<JObj([id |-> JStr("m1")]), JStr("m1")>>)
  /\ result.value = <<"m1">>


(***************************************************************************)
(* The application's threads                                               *)
(***************************************************************************)
UiBodies ==
  {"status_body", "run_body", "stop_body", "snap_body", "export_body",
   "clear_body", "view_body"}

WorkerBodies == {"publish_report", "publish_summary", "publish_status", "catch_body"}

WorkerLockPoints == {"publish_lock", "catch_lock"}

\* the fields of SharedState
SharedFields(a) ==
  <<a.status_text, a.summary_text, a.has_report, a.last_report, a.last_log_path,
    a.last_json_path>>

PublishedStatuses ==
  { StatusWithLog(t, path) :
      t \in {"Audit canceled.", "Audit completed."}, path \in {"", "run.log"} }

\* every step that changes SharedState is taken by the thread that holds the
\* mutex (the log callback holds it for the length of its own step)
WritesUnderLock ==
  (SharedFields(app') # SharedFields(app) \/ log_lines' # log_lines) =>
    \/ app.mutex = "ui" /\ app.ui \in UiBodies /\ app'.ui # app.ui
    \/ app.mutex = "worker" /\ app.wpc \in WorkerBodies /\ app'.wpc # app.wpc
    \/ app.mutex = "free" /\ app.wpc = "run" /\ pc' # pc /\ app' = app

\* the blocks that read or write SharedState are entered with the mutex held
\* and it is given back at their end
BlocksHoldLock ==
  /\ app.ui \in UiBodies <=> app.mutex = "ui"
  /\ app.wpc \in WorkerBodies <=> app.mutex = "worker"

\* no thread asks for the mutex it holds
NoRelock ==
  /\ app.ui \in UiLockPoints => app.mutex # "ui"
  /\ app.wpc \in WorkerLockPoints \/ app.wpc = "run" => app.mutex # "worker"

\* the UI thread waits for the mutex or for the worker to return
UiWaits ==
  \/ app.ui \in UiLockPoints /\ app.mutex # "free"
  \/ app.ui = "close_join" /\ app.thread = "running"
  \/ app.ui = "join" /\ ~app.audit_running /\ app.thread = "running"

\* the worker thread has a step to take and does not wait for the mutex
WorkerRuns ==
  /\ app.wpc # "idle"
  /\ app.wpc \in WorkerLockPoints \/ (app.wpc = "run" /\ CallbackNext) =>
       app.mutex = "free"

\* the report of the run in progress is visible only with has_report and its
\* summary
PublishedWhole ==
  app.last_report.run = app.runs /\ app.runs > 0 =>
    /\ app.has_report
    /\ app.summary_text = BuildSummaryText(app.last_report)

C21_WitnessContended ==
  /\ app.wpc = "publish_lock"
  /\ app.mutex = "ui"


\* C22: an exception thrown by Run or by WriteRunLog lands in the worker's
\* handlers and terminates nothing; the handler's block ends with an
\* "Audit failed: ..." status, and the thread function returns, after a run
\* that succeeded, was canceled or failed, only past the store that sets
\* audit_running to false
C22_FaultCaughtAndRunningReset ==
  /\ [][app'.thrown > app.thrown =>
          app.wpc \in {"run", "write_log"} /\ app'.wpc = "catch_lock" /\ ~app'.crashed]_vars
  /\ [][app.wpc = "catch_body" /\ app'.wpc # "catch_body" =>
          app'.status_text \in FailedStatuses /\ app'.wpc = "reset"]_vars
  /\ [][app.wpc # "return" /\ app'.wpc = "return" =>
          app.wpc = "reset" /\ ~app'.audit_running]_vars
  /\ [][app.thread = "running" /\ app'.thread = "finished" => app.wpc = "return"]_vars
  /\ [](app.wpc \in {"catch_lock", "catch_body"} => app.thread = "running")

\* a run failed with an exception: the status says so, audit_running is
\* false and the thread function has returned
C22_Witness ==
  /\ app.thrown = 1
  /\ app.status_text \in FailedStatuses
  /\ ~app.audit_running
  /\ app.thread = "finished"
  /\ ~app.has_report

\* a run that was canceled has returned as well
C22_WitnessCanceled ==
  /\ app.thrown = 0
  /\ app.status_text \in {StatusWithLog("Audit canceled.", path) : path \in {"", "run.log"}}
  /\ ~app.audit_running
  /\ app.thread = "finished"


StartLines == {"Starting full provider audit", "Audit canceled before start."}

EndLines ==
  {"Audit completed.", "Audit ended early due to cancellation request.",
   "Audit canceled before start."}

\* C23: a step of Run that logs appends the same line to report.run_logs and
\* to the lines the callback received, so the two sequences are equal all
\* along; the first line is the start line or the early-cancellation line,
\* and when Run has returned the last line is the end line or a cancellation
\* line
C23_LogsMirrored ==
  /\ [](log_lines = report.run_logs)
  /\ [][log_lines' # log_lines =>
          /\ Len(log_lines') = Len(log_lines) + 1
          /\ log_lines' = Append(log_lines, Last(log_lines'))
          /\ report'.run_logs = Append(report.run_logs, Last(log_lines'))]_vars
  /\ [][report'.run_logs # report.run_logs => log_lines' # log_lines]_vars
  /\ [](log_lines # <<>> => log_lines[1] \in StartLines)
  /\ [](pc # "run_entry" => log_lines # <<>>)
  /\ [](pc = "done" => Last(report.run_logs) \in EndLines)
  /\ [](\A i \in 1..Len(log_lines) :
          /\ log_lines[i] \in StartLines => i = 1
          /\ log_lines[i] \in EndLines => i = Len(log_lines) /\ pc = "done")

\* a run that logged per-provider lines between its start and end lines
C23_Witness ==
  /\ pc = "done"
  /\ Len(report.run_logs) >= 4
  /\ log_lines[1] = "Starting full provider audit"
  /\ Last(log_lines) = "Audit completed."

\* a run canceled before its start has the one line
C23_WitnessEarly ==
  /\ pc = "done"
  /\ log_lines = <<"Audit canceled before start.">>
  /\ report.run_logs = log_lines


\* the audit a provider returns when the list response parses to `{}`
EmptyListAudit(pa, cfg, got, r) ==
  FinalizeMetrics([AddTrace(pa, "list_models", r) EXCEPT
                     !.models_status = r.status,
                     !.models_latency_ms = r.latency_ms,
                     !.raw_payload = RawPayload(cfg.shape, got, EmptyObject),
                     !.notes = NoModelsNote(cfg.shape)])

\* the prompt tests of the provider after a step
PromptTestsNext ==
  IF pc' = "check_prompt" THEN p'.prompt_tests
  ELSE Last(report'.providers).prompt_tests

\* C24: a list response whose body is not JSON ends the provider exactly as
\* a body of `{}` does: the audit returned has no sample model, no
\* capability tag, max context -1, `{}` as raw models_response and the
\* no-models note; a chat response whose body is not JSON records the model
\* as not working, or the prompt test with an empty answer, the same
\* entries a body of `{}` gives
C24_InvalidJsonIsEmptyObject ==
  /\ [][pc = "wait_list" /\ pc' # "wait_list"
        /\ Last(received').body \in {InvalidBody, EmptyObject} =>
          /\ report'.providers =
               Append(report.providers,
                      EmptyListAudit(p, Cfg, received, Last(received')))
          /\ LET a == Last(report'.providers)
             IN /\ a.sample_models = <<>>
                /\ a.capability_tags = <<>>
                /\ a.max_context_seen = -1
                /\ a.raw_payload.o["models_response"] = EmptyObject
                /\ a.model_checks = <<>>
                /\ a.prompt_tests = <<>>]_vars
  /\ [][pc = "wait_check" /\ pc' # "wait_check"
        /\ Last(received').body \in {InvalidBody, EmptyObject} =>
          /\ Last(p'.model_checks) =
               [model |-> candidates[ci], status |-> Last(received').status,
                latency_ms |-> Last(received').latency_ms, working |-> FALSE]
          /\ p'.failing_models = Append(p.failing_models, candidates[ci])
          /\ p'.working_models = p.working_models]_vars
  /\ [][pc = "wait_prompt" /\ pc' # "wait_prompt"
        /\ Last(received').body \in {InvalidBody, EmptyObject} =>
          Last(PromptTestsNext) =
            [name |-> kPromptSuite[ci], status |-> Last(received').status,
             latency_ms |-> Last(received').latency_ms, answer |-> ""]]_vars

\* a list response of status 200 with a body that is not JSON has ended a
\* provider
C24_Witness ==
  /\ server.list_body = InvalidBody
  /\ \E i \in 1..Len(report.providers) :
       /\ report.providers[i].models_status = 200
       /\ report.providers[i].raw_payload # JNull
       /\ report.providers[i].raw_payload.o["models_response"] = EmptyObject
       /\ report.providers[i].notes = NoModelsNote(ProviderTable[i].shape)

\* a model check answered with status 200 and a body that is not JSON
C24_WitnessChat ==
  /\ pc = "check_model"
  /\ Last(received) = Response(200, 1, InvalidBody, "")
  /\ p.model_checks # <<>>
  /\ ~Last(p.model_checks).working


(***************************************************************************)
(* The answer extractors                                                   *)
(***************************************************************************)
Missing == [t |-> "missing"]

\* the value at a path of keys [k |-> ..] and positions [i |-> ..]
RECURSIVE Lookup(_, _)
Lookup(j, path) ==
  IF path = <<>> THEN j
  ELSE LET e == Head(path)
       IN IF "k" \in DOMAIN e
          THEN IF IsObject(j) /\ JContains(j, e.k)
               THEN Lookup(j.o[e.k], Tail(path)) ELSE Missing
          ELSE IF IsArray(j) /\ Len(j.a) >= e.i
               THEN Lookup(j.a[e.i], Tail(path)) ELSE Missing

HasText(part) ==
  IsObject(part) /\ JContains(part, "text") /\ IsString(part.o["text"])

\* the text values of the parts that have one, in order
TextsOf(parts) == [i \in 1..Len(SelectSeq(parts, HasText)) |->
                     SelectSeq(parts, HasText)[i].o["text"].s]

\* texts with a newline between consecutive ones
RECURSIVE JoinedWithNewlines(_)
JoinedWithNewlines(texts) ==
  IF texts = <<>> THEN ""
  ELSE IF Len(texts) = 1 THEN texts[1]
  ELSE texts[1] \o "\n" \o JoinedWithNewlines(Tail(texts))

OpenAIPath == <<[k |-> "choices"], [i |-> 1], [k |-> "message"], [k |-> "content"]>>
GooglePath == <<[k |-> "candidates"], [i |-> 1], [k |-> "content"], [k |-> "parts"]>>
CoherePath == <<[k |-> "message"], [k |-> "content"]>>

\* the answer the extractor of a shape is said to return
JoinedAnswer(shape, j) ==
  LET parts(c) == IF IsArray(c) THEN JoinedWithNewlines(TextsOf(c.a)) ELSE ""
  IN CASE shape = "google" -> parts(Lookup(j, GooglePath))
       [] shape = "cohere" ->
            IF IsString(Lookup(j, <<[k |-> "text"]>>))
            THEN Lookup(j, <<[k |-> "text"]>>).s
            ELSE parts(Lookup(j, CoherePath))
       [] OTHER ->
            IF IsString(Lookup(j, OpenAIPath)) THEN Lookup(j, OpenAIPath).s
            ELSE parts(Lookup(j, OpenAIPath))

\* C25: an extractor returns "" for a value that does not match its path,
\* the string for a plain-string content, and for a list of parts their
\* text values with a newline between consecutive parts only
C25_PartsJoinedByNewlines ==
  Called("ExtractAnswer") => result.value = JoinedAnswer(call.shape, call.j)


\* the requests a provider may send: the list, the identity check of Vercel
\* and GitHub, the model checks and the prompt tests
RequestLimit(shape) ==
  1 + (IF HasAuthStep(shape) THEN 1 ELSE 0) + kMaxCandidates + Len(kPromptSuite)

\* C26: a provider sends at most one list request, one identity check (Vercel
\* and GitHub only), 8 model checks and 3 prompt tests, so at most 12 (13)
\* requests, which bounds total_requests; no request is sent twice; and a
\* request is handed to the Sender only when the one before has returned
C26_RequestBounds ==
  /\ [](\A i \in 1..NumProviders :
          LET id == ProviderIds[i]
              shape == ProviderTable[i].shape
          IN /\ Len(SentStep(id, "list_models")) <= 1
             /\ Len(SentStep(id, "auth_user")) <= (IF HasAuthStep(shape) THEN 1 ELSE 0)
             /\ Len(SentStep(id, "model_check")) <= kMaxCandidates
             /\ Len(SentStep(id, "prompt_test")) <= Len(kPromptSuite)
             /\ Len(SentBy(id)) <= RequestLimit(shape)
             /\ Distinct(SentBy(id)))
  /\ [](\A a \in Audits : a.total_requests <= RequestLimit(ShapeOf(a.provider_id)))
  /\ [](Len(sent) - Len(received) = (IF InFlight THEN 1 ELSE 0))
  /\ [][Len(sent') > Len(sent) => Len(sent') = Len(sent) + 1 /\ Len(received) = Len(sent)]_vars

\* a provider with an identity check that sent all 13 requests, its first
\* model check among the failed ones
C26_Witness ==
  \E a \in Range(report.providers) :
    /\ HasAuthStep(ShapeOf(a.provider_id))
    /\ a.total_requests = RequestLimit(ShapeOf(a.provider_id))
    /\ Len(SentBy(a.provider_id)) = kMaxCandidates + Len(kPromptSuite) + 2
    /\ a.failed_requests >= 1
    /\ ~a.model_checks[1].working


\* C27: every model-check and prompt-test request handed to the Sender has
\* temperature 0 in its payload, and a model check asks "Reply with exactly:
\* OK", whichever of the five adapters sends it
C27_TemperatureZero ==
  \A i \in 1..Len(sent) :
    sent[i].step \in ChatSteps =>
      /\ "temperature" \in DOMAIN sent[i].payload
      /\ sent[i].payload.temperature = 0
      /\ sent[i].step = "model_check" => sent[i].payload.content = "Reply with exactly: OK"

\* every integer field with a context key, at any depth of a document
RECURSIVE ContextFields(_)
ContextFields(node) ==
  IF IsObject(node)
  THEN { node.o[k] : k \in { x \in DOMAIN node.o :
                               IsInteger(node.o[x]) /\ ContextKey(ToLower(x)) } }
       \cup UNION { ContextFields(node.o[k]) : k \in DOMAIN node.o }
  ELSE IF IsArray(node)
       THEN UNION { ContextFields(node.a[i]) : i \in 1..Len(node.a) }
       ELSE {}

\* a <= b as numbers: 2^63 + k is above every long long
NumberLeq(a, b) ==
  IF b.t = "uint" THEN a.t = "int" \/ a.over <= b.over
  ELSE a.t = "int" /\ a.n <= b.n

MaximumOf(vs) == CHOOSE v \in vs : \A w \in vs : NumberLeq(w, v)

\* C28: ExtractMaxContext returns the maximum of the values of the integer
\* fields with a context key anywhere in the tree, -1 when there is no such
\* field, and never a number below -1
C28_MaximumOfContextFields ==
  Called("ExtractMaxContext") =>
    /\ result.value >= -1
    /\ IF ContextFields(call.j) = {} THEN result.value = -1
       ELSE JInt(result.value) = MaximumOf(ContextFields(call.j))

\* C29: the walks of ExtractMaxContext (scan) and ExtractCapabilities (walk)
\* stop at a fixed depth: however deep the document, the nested calls go no
\* deeper than a limit, which is then at most the MaxNesting levels of the
\* deepest document drawn
C29_WalkDepthBounded ==
  Called("ExtractMaxContext") \/ Called("ExtractCapabilities") =>
    CallDepth(call.j) <= MaxNesting

\* the places of Run outside the adapters
BetweenAdapters == {"idle", "run_entry", "check_provider", "run_end", "done"}

\* C30: a ProviderAudit changes only during the run of its own adapter: the
\* audit in the making belongs to the provider being audited and changes at
\* no step outside the adapter; report.providers changes only by an adapter's
\* return appending the audit of that provider, and report.run_logs only by
\* appending one line, so no entry of either is ever changed or removed by a
\* later provider's run, a log line or the end of Run.
C30_AppendedAuditFrozen ==
  /\ [](p # NoAudit => p.provider_id = Cfg.id /\ pc \notin BetweenAdapters)
  /\ [][p' # p => pc \notin BetweenAdapters]_vars
  /\ [][report'.providers # report.providers =>
          /\ pc \notin BetweenAdapters
          /\ report'.providers = Append(report.providers, Last(report'.providers))
          /\ Last(report'.providers).provider_id = Cfg.id
          /\ p' = NoAudit]_vars
  /\ [][report'.run_logs # report.run_logs =>
          report'.run_logs = Append(report.run_logs, Last(report'.run_logs))]_vars
  /\ [](\A i \in 1..Len(report.providers) :
          report.providers[i].provider_id = ProviderIds[i])

\* Run is over with every provider reported, two of them probed
C30_Witness ==
  /\ pc = "done"
  /\ Len(report.providers) = NumProviders
  /\ \E i, k \in 1..NumProviders :
       /\ i < k
       /\ Len(report.providers[i].request_traces) > 0
       /\ Len(report.providers[k].request_traces) > 0
  /\ Last(report.run_logs) = "Audit completed."

\* C31: the UI thread assigns a new worker thread only over a thread object
\* that is not joinable: every click on Run Full Audit that reaches
\* worker = std::thread(...) finds the previous worker joined, and the
\* process is never terminated by the assignment.
C31_WorkerJoinedBeforeSpawn ==
  /\ app.ui = "run_spawn" => app.thread = "none"
  /\ ~app.crashed

\* the Run handler between its click and the start of the thread
InRunHandler == app.ui \in {"run_lock", "run_body", "run_spawn"}

\* C32: at most one AuditEngine::Run executes at a time: audit_running is
\* true all through an execution of Run; a click on Run Full Audit is taken
\* only while audit_running is false and sets it; and from that click to the
\* start of the new thread the previous worker is outside Run, past its
\* audit_running.store(false).
C32_OneRunAtATime ==
  /\ [](app.wpc \in {"run", "write_log"} => app.audit_running)
  /\ [](InRunHandler => app.audit_running /\ app.wpc \in {"idle", "return"})
  /\ [][app'.runs # app.runs => ~app.audit_running /\ app'.audit_running]_vars
  /\ [][app.wpc # "run" /\ app'.wpc = "run" =>
          app.wpc = "idle" /\ app.audit_running /\ pc' = "run_entry"]_vars

\* the second audit is in the middle of Run after the first one finished
C32_Witness ==
  /\ app.runs = 2
  /\ app.wpc = "run"
  /\ pc = "wait_check"
  /\ app.has_report
  /\ app.last_report.run = 1

\* the requests handed to Request while the flag was set
SentAfterFlag == SelectSeq(sent, LAMBDA e : e.flag)

\* C33: once the cancellation flag is set and stays set, at most two more
\* requests are dispatched in the whole run (the one in flight at that moment
\* is not one of them), and none once an adapter has returned because of the
\* cancellation: no later provider sends anything.
C33_TwoRequestsAfterFlag ==
  /\ [](Len(SentAfterFlag) <= 2)
  /\ [](\A i \in 1..Len(SentAfterFlag) :
          SentAfterFlag[i].provider = SentAfterFlag[1].provider)
  /\ [][(\E i \in 1..Len(report.providers) : HasCancelNote(report.providers[i]))
          => sent' = sent]_vars
  /\ [][cancel_requested /\ pc = "check_provider" => sent' = sent /\ pc' # "adapter_entry"]_vars

\* the flag was set as Vercel's adapter was about to start, after three
\* providers: its sign-in and its list request went out, and nothing of the
\* seven keyed providers after it
C33_Witness ==
  /\ pc = "done"
  /\ Len(SentAfterFlag) = 2
  /\ SentAfterFlag[1].step = "auth_user"
  /\ SentAfterFlag[2].step = "list_models"
  /\ SentAfterFlag[1].provider = "vercel"
  /\ Len(sent) = 5
  /\ Len(report.providers) = 4
  /\ key_of("groq") # ""

CancellationLines ==
  {"Audit canceled before start.", "Audit ended early due to cancellation request."}

\* the report holds every provider and no audit was stopped by cancellation
AllProvidersUncanceled ==
  /\ Len(report.providers) = NumProviders
  /\ \A i \in 1..Len(report.providers) : ~HasCancelNote(report.providers[i])

\* C34 as stated: at the end of Run the last run-log line is
\* "Audit completed." exactly when the report holds all 11 providers and none
\* of them carries the cancellation note; otherwise it is a cancellation line.
C34_CompletedIffAllProviders ==
  pc = "done" =>
    /\ Last(report.run_logs) = "Audit completed." <=> AllProvidersUncanceled
    /\ Last(report.run_logs) \in CancellationLines \cup {"Audit completed."}

\* C34 as amended: at the end of Run the last run-log line is
\* "Audit completed." exactly when the flag was unset at Run's last read of
\* it, and then the report holds all 11 providers, none with the cancellation
\* note; otherwise it is a cancellation line, also when the flag was set
\* after the last checkpoint and the report is as complete as it can be.
C34_LastLineFollowsFlag ==
  pc = "done" =>
    /\ Last(report.run_logs) \in CancellationLines \cup {"Audit completed."}
    /\ Last(report.run_logs) = "Audit completed." <=> ~cancel_requested
    /\ Last(report.run_logs) = "Audit completed." => AllProvidersUncanceled
    /\ Last(report.run_logs) = "Audit canceled before start." <=>
         Len(report.run_logs) = 1

\* Stop came after the last checkpoint of the last provider: a complete
\* report whose last line says the audit ended early
C34_Witness ==
  /\ pc = "done"
  /\ AllProvidersUncanceled
  /\ Last(report.run_logs) = "Audit ended early due to cancellation request."
  /\ \E i \in 1..NumProviders : report.providers[i].score_total > 0

StartsWith(text, prefix) ==
  Len(text) >= Len(prefix) /\ SubSeq(text, 1, Len(prefix)) = prefix

\* C35: the status text the worker publishes agrees with the report it
\* publishes in the same locked block: it starts with "Audit canceled."
\* exactly when the last run-log line of that report is a cancellation line,
\* and with "Audit completed." exactly when that line is "Audit completed.",
\* wherever the Stop button falls.
C35_StatusAgreesWithReport ==
  [][app.wpc = "publish_status" /\ app'.wpc = "reset" =>
       /\ StartsWith(app'.status_text, "Audit canceled.") <=>
            app'.last_report.last_line \in CancellationLines
       /\ StartsWith(app'.status_text, "Audit completed.") <=>
            app'.last_report.last_line = "Audit completed."]_vars

\* the traces of the model checks of an audit, in order
CheckTraces(a) ==
  SelectSeq(a.request_traces, LAMBDA t : StartsWith(t.step, "model_check:"))

\* C36: the trace of every model check recorded as working was counted in
\* successful_requests (a status in [200,300) and no error text), whatever
\* Request returned, so an audit has no more working models than successful
\* requests.
C36_WorkingCountedSuccessful ==
  \A a \in Audits :
    /\ Len(CheckTraces(a)) = Len(a.model_checks)
    /\ \A k \in 1..Len(a.model_checks) :
         a.model_checks[k].working =>
           Is2xx(CheckTraces(a)[k].status) /\ CheckTraces(a)[k].error = ""
    /\ Len(a.working_models) <= a.successful_requests

\* the traces of an audit are: the sign-in (Vercel, GitHub), the list
\* request, one per model check, one per prompt test, in this order, each
\* with the status and the latency of the check or test it belongs to
TraceShape(a) ==
  LET ts == a.request_traces
      na == IF HasAuthStep(ShapeOf(a.provider_id)) THEN 1 ELSE 0
      nm == Len(a.model_checks)
      np == Len(a.prompt_tests)
  IN /\ Len(ts) = na + 1 + nm + np
     /\ na = 1 => ts[1].step = "auth_user"
     /\ ts[na + 1].step = "list_models"
     /\ \A i \in 1..nm :
          /\ ts[na + 1 + i].step = "model_check:" \o a.model_checks[i].model
          /\ ts[na + 1 + i].status = a.model_checks[i].status
          /\ ts[na + 1 + i].latency_ms = a.model_checks[i].latency_ms
     /\ np <= Len(kPromptSuite)
     /\ \A j \in 1..np :
          /\ a.prompt_tests[j].name = kPromptSuite[j]
          /\ ts[na + 1 + nm + j].step = "prompt_test:" \o kPromptSuite[j]
          /\ ts[na + 1 + nm + j].status = a.prompt_tests[j].status
          /\ ts[na + 1 + nm + j].latency_ms = a.prompt_tests[j].latency_ms

\* C37 as stated: every ProviderAudit has the trace shape, with exactly one
\* list_models trace.
C37_TraceShapeInEveryAudit ==
  \A i \in 1..Len(report.providers) : TraceShape(report.providers[i])

\* C37 as amended: every ProviderAudit of a provider whose key was supplied
\* has the trace shape, with exactly one list_models trace; the audit of a
\* provider without a key has no trace at all; the model checks of the audit
\* in the making are those of the candidates, in their order.
C37_TraceShapeWhenKeyed ==
  /\ \A i \in 1..Len(report.providers) :
       IF report.providers[i].key_supplied
       THEN TraceShape(report.providers[i])
       ELSE report.providers[i].request_traces = <<>>
  /\ p # NoAudit =>
       /\ Len(p.model_checks) <= Len(candidates)
       /\ \A i \in 1..Len(p.model_checks) : p.model_checks[i].model = candidates[i]

\* a Vercel audit with its sign-in, its list, two model checks and the three
\* prompt tests, after three providers without a key
C37_Witness ==
  /\ Len(report.providers) >= 4
  /\ report.providers[1].request_traces = <<>>
  /\ Len(report.providers[4].request_traces) = 7
  /\ report.providers[4].request_traces[1].step = "auth_user"
  /\ report.providers[4].request_traces[7].step = "prompt_test:axui"

\* C38: every started audit terminates when every Request and every call of
\* the log callback returns: Run is left after at most 11 provider runs, the
\* worker then sets audit_running to false, and a window that is being closed
\* ends with the flag set and the worker joined.
C38_AuditsTerminate ==
  /\ [](idx <= NumProviders + 1 /\ Len(report.providers) <= NumProviders)
  /\ (app.wpc = "run") ~> (app.wpc # "run")
  /\ app.audit_running ~> ~app.audit_running
  /\ (app.ui = "close_join") ~> (app.ui = "exited")
  /\ [](app.ui \in {"close_join", "exited"} => cancel_requested)
  /\ [](app.ui = "exited" => app.thread = "none" /\ app.wpc = "idle")

\* C39: every click on Run Full Audit clears the cancellation flag before the
\* worker is started, and the flag is set only by the Stop handler, which
\* runs only while audit_running is true, or when the window is closed; so an
\* audit starts with the flag unset whatever was asked of the audit before,
\* and only a Stop that follows its own click cancels it.
C39_FlagClearedForEachRun ==
  /\ [][app'.runs # app.runs => ~cancel_requested' /\ app'.audit_running]_vars
  /\ [](InRunHandler => ~cancel_requested)
  /\ [][app.wpc = "idle" /\ app'.wpc = "run" => ~cancel_requested /\ pc' = "run_entry"]_vars
  /\ [][~cancel_requested /\ cancel_requested' =>
          \/ app.ui = "stop_btn" /\ app.audit_running /\ app'.ui = "stop_lock"
             /\ app'.runs = app.runs
          \/ app.ui = "loop" /\ app'.ui = "close_join"]_vars
  /\ [][cancel_requested /\ ~cancel_requested' => app'.runs = app.runs + 1]_vars

\* the first audit was stopped and its report says so; the second one, started
\* afterwards, ran to "Audit completed."
C39_Witness ==
  /\ app.runs = 2
  /\ app.wpc = "run"
  /\ pc = "done"
  /\ Last(report.run_logs) = "Audit completed."
  /\ app.last_report.run = 1
  /\ app.last_report.last_line = "Audit ended early due to cancellation request."
  /\ ~cancel_requested

====
